---- MODULE Spec2Model ----
(***************************************************************************)
(* grpcerr: canonical gRPC errors and their transcoding to HTTP/JSON.      *)
(*                                                                         *)
(* The model follows src/http.go (httpResponseEncoder.AsJSON,              *)
(* NewHttpResponseEncodeWriter, httpStatusCodeFrom) and                    *)
(* src/grpc.go (jsonBytesFromGrpcStatus).  An encode call is a small       *)
(* sequential process: pc[c] is the position of call c inside AsJSON.      *)
(* The http.ResponseWriter the encoder writes to is modelled as a record   *)
(* with the "first status write wins" behaviour of net/http.               *)
(*                                                                         *)
(* The error factory of src/grpc.go (the 16 constructors, the four         *)
(* detail-attachment helpers, the nine accessors, Code and Message) is     *)
(* modelled as operators on status values, applied by the actions of a     *)
(* caller that constructs an error, attaches details, wraps it and reads   *)
(* it (SpecErr).                                                           *)
(*                                                                         *)
(* Specifications: Spec (one encode), SpecWrap (a wrapped and a direct     *)
(* encode side by side), SpecSeq (two encodes in sequence on one sink),    *)
(* SpecConc (two independent encodes whose steps interleave), SpecErr.     *)
(***************************************************************************)
EXTENDS Integers, Sequences, FiniteSets, TLC

(***************************************************************************)
(* Bounds of the model.                                                    *)
(***************************************************************************)
\* longest list of ResponseWriterOption callbacks given to an encoder
MaxOpts == 2
\* deepest chain of fmt.Errorf("...: %w", err) wrappings around an error
MaxWrap == 2
\* most detail-attachment calls a caller makes on the error it holds
MaxAdds == 2

(***************************************************************************)
(* gRPC codes (google.golang.org/grpc/codes) with the numeric values the   *)
(* wire JSON carries, and the net/http status constants used by the mapper.*)
(***************************************************************************)
Canceled == 1
Unknown == 2
InvalidArgument == 3
DeadlineExceeded == 4
NotFound == 5
AlreadyExists == 6
PermissionDenied == 7
ResourceExhausted == 8
FailedPrecondition == 9
Aborted == 10
OutOfRange == 11
Unimplemented == 12
Internal == 13
Unavailable == 14
DataLoss == 15
Unauthenticated == 16
\* codes.Code(9999), the illegal code of Test_httpStatusCodeFrom
IllegalCode == 9999

StatusOK == 200
StatusBadRequest == 400
StatusUnauthorized == 401
StatusForbidden == 403
StatusNotFound == 404
StatusConflict == 409
StatusTooManyRequests == 429
StatusClientClosedRequest == 499
StatusInternalServerError == 500
StatusNotImplemented == 501
StatusServiceUnavailable == 503
StatusGatewayTimeout == 504

\* the 16 kinds of the taxonomy
TableCodes == 1..16
\* codes a *status.Status can carry that are outside the table: OK (0),
\* the first unassigned value, and the illegal code of the unit test
OutOfTableCodes == {0, 17, IllegalCode}
Codes == TableCodes \cup OutOfTableCodes

(***************************************************************************)
(* Status values: code, message, details.                                  *)
(***************************************************************************)
\* a message holding a byte sequence that is not valid UTF-8
InvalidUTF8Msg == "dummy-msg-with-byte-0xFF"
Messages == {"", "dummy-msg", InvalidUTF8Msg}

DebugInfoDetail == [type |-> "DebugInfo", val |-> "dummy-detail"]
RequestInfoDetail == [type |-> "RequestInfo", val |-> "dummy-request-id"]
DetailLists == {<<>>, <<DebugInfoDetail>>, <<DebugInfoDetail, RequestInfoDetail>>}

Statuses == [code : Codes, message : Messages, details : DetailLists]

(***************************************************************************)
(* Error values: nil, a plain error, an error carrying a status, and       *)
(* fmt.Errorf("%w") wrappers around any of the last two.                   *)
(***************************************************************************)
NilErr == [tag |-> "nil"]
PlainErr == [tag |-> "plain"]
StatusErr(st) == [tag |-> "status", st |-> st]
WrapErr(e) == [tag |-> "wrap", inner |-> e]

RECURSIVE Wrapped(_, _)
Wrapped(e, n) == IF n = 0 THEN e ELSE WrapErr(Wrapped(e, n - 1))

RootErrors == {PlainErr} \cup {StatusErr(st) : st \in Statuses}
Errors == {NilErr} \cup {Wrapped(e, n) : e \in RootErrors, n \in 0..MaxWrap}

\* a resolver that unwraps one level only
rootErrorOneLevel(e) == IF e.tag = "wrap" THEN e.inner ELSE e

\* the innermost error of a chain: unwrap until there is no inner error
RECURSIVE rootError(_)
rootError(e) == IF e.tag = "wrap" THEN rootError(e.inner) ELSE e

\* does the error expose the GRPCStatus() capability
hasGRPCStatus(e) == e.tag = "status"

RECURSIVE Depth(_)
Depth(e) == IF e.tag = "wrap" THEN 1 + Depth(e.inner) ELSE 0

(***************************************************************************)
(* Bytes and the JSON rendering of a status.                               *)
(***************************************************************************)
NilBytes == [kind |-> "nil", keys |-> {}, code |-> 0, message |-> "", details |-> <<>>, raw |-> ""]
RawBytes(s) == [kind |-> "raw", keys |-> {}, code |-> 0, message |-> "", details |-> <<>>, raw |-> s]

utf8Valid(m) == m # InvalidUTF8Msg

\* protojson leaves out fields holding their zero value
JSONKeys(st) ==
    (IF st.code # 0 THEN {"code"} ELSE {})
    \cup (IF st.message # "" THEN {"message"} ELSE {})
    \cup (IF st.details # <<>> THEN {"details"} ELSE {})

\* a rendering that loses the attached details
jsonBytesFromGrpcStatusNoDetails(st) ==
    IF utf8Valid(st.message)
    THEN [ok |-> TRUE,
          data |-> [kind |-> "json", keys |-> JSONKeys(st) \ {"details"}, code |-> st.code,
                    message |-> st.message, details |-> <<>>, raw |-> ""]]
    ELSE [ok |-> FALSE, data |-> NilBytes]

jsonBytesFromGrpcStatus(st) ==
    IF utf8Valid(st.message)
    THEN [ok |-> TRUE,
          data |-> [kind |-> "json", keys |-> JSONKeys(st), code |-> st.code,
                    message |-> st.message, details |-> st.details, raw |-> ""]]
    ELSE [ok |-> FALSE, data |-> NilBytes]

(***************************************************************************)
(* The status code mapper.                                                 *)
(***************************************************************************)
\* the mapper without its Canceled case (the code falls through to the default)
httpStatusCodeFromNoCanceled(st) ==
    CASE st.code \in {Aborted, AlreadyExists} -> StatusConflict
      [] st.code \in {DataLoss, Unknown, Internal} -> StatusInternalServerError
      [] st.code \in {InvalidArgument, FailedPrecondition, OutOfRange} -> StatusBadRequest
      [] st.code = Unauthenticated -> StatusUnauthorized
      [] st.code = PermissionDenied -> StatusForbidden
      [] st.code = NotFound -> StatusNotFound
      [] st.code = ResourceExhausted -> StatusTooManyRequests
      [] st.code = Unimplemented -> StatusNotImplemented
      [] st.code = Unavailable -> StatusServiceUnavailable
      [] st.code = DeadlineExceeded -> StatusGatewayTimeout
      [] OTHER -> StatusInternalServerError

\* the mapper of the earlier revision, whose fallback was 422
httpStatusCodeFromFallback422(st) ==
    CASE st.code \in {Aborted, AlreadyExists} -> StatusConflict
      [] st.code \in {DataLoss, Unknown, Internal} -> StatusInternalServerError
      [] st.code \in {InvalidArgument, FailedPrecondition, OutOfRange} -> StatusBadRequest
      [] st.code = Unauthenticated -> StatusUnauthorized
      [] st.code = PermissionDenied -> StatusForbidden
      [] st.code = NotFound -> StatusNotFound
      [] st.code = ResourceExhausted -> StatusTooManyRequests
      [] st.code = Canceled -> StatusClientClosedRequest
      [] st.code = Unimplemented -> StatusNotImplemented
      [] st.code = Unavailable -> StatusServiceUnavailable
      [] st.code = DeadlineExceeded -> StatusGatewayTimeout
      [] OTHER -> 422

httpStatusCodeFrom(st) ==
    CASE st.code \in {Aborted, AlreadyExists} -> StatusConflict
      [] st.code \in {DataLoss, Unknown, Internal} -> StatusInternalServerError
      [] st.code \in {InvalidArgument, FailedPrecondition, OutOfRange} -> StatusBadRequest
      [] st.code = Unauthenticated -> StatusUnauthorized
      [] st.code = PermissionDenied -> StatusForbidden
      [] st.code = NotFound -> StatusNotFound
      [] st.code = ResourceExhausted -> StatusTooManyRequests
      [] st.code = Canceled -> StatusClientClosedRequest
      [] st.code = Unimplemented -> StatusNotImplemented
      [] st.code = Unavailable -> StatusServiceUnavailable
      [] st.code = DeadlineExceeded -> StatusGatewayTimeout
      [] OTHER -> StatusInternalServerError

(***************************************************************************)
(* The output sink (http.ResponseWriter).  header is the Content-Type      *)
(* entry of Header() ("" when unset); the first WriteHeader fixes the      *)
(* status code and takes a snapshot of the headers; Write sends status 200 *)
(* first when no status was written.  calls records every call made on the *)
(* sink: by = 0 for the encoder, by = k for the k-th callback.             *)
(***************************************************************************)
ContentTypeJSON == "application/json"
ContentTypeDummy == "dummy-content-type-value"

FreshSink ==
    [header |-> "", wroteHeader |-> FALSE, code |-> StatusOK, snapHeader |-> "",
     body |-> <<>>, calls |-> <<>>]

Call(by, op, code) == [by |-> by, op |-> op, code |-> code]

HeaderSet(s, v, by) ==
    [s EXCEPT !.header = v, !.calls = Append(@, Call(by, "Header.Set", 0))]

SendStatus(s, c) ==
    IF s.wroteHeader THEN s
    ELSE [s EXCEPT !.wroteHeader = TRUE, !.code = c, !.snapHeader = s.header]

WriteHeader(s, c, by) ==
    [SendStatus(s, c) EXCEPT !.calls = Append(@, Call(by, "WriteHeader", c))]

Write(s, b, by) ==
    [SendStatus(s, StatusOK) EXCEPT
        !.body = IF b.kind = "nil" THEN @ ELSE Append(@, b),
        !.calls = Append(@, Call(by, "Write", 0))]

\* what the client receives (httptest.ResponseRecorder.Result)
ResultStatusCode(s) == s.code
ResultContentType(s) == IF s.wroteHeader THEN s.snapHeader ELSE s.header
ResultBody(s) == s.body

(***************************************************************************)
(* ResponseWriterOption callbacks.                                         *)
(***************************************************************************)
OptSetContentType == [op |-> "Header.Set", code |-> 0]
OptWriteHeader(c) == [op |-> "WriteHeader", code |-> c]
OptWriteBody == [op |-> "Write", code |-> 0]
OptNil == [op |-> "nil", code |-> 0]

\* the statuses a callback writes: 200 as in the test, and 202 to tell two
\* status-writing callbacks apart
OptStatusCodes == {StatusOK, 202}

Options == {OptSetContentType, OptWriteBody, OptNil} \cup {OptWriteHeader(c) : c \in OptStatusCodes}

RECURSIVE SeqsUpTo(_, _)
SeqsUpTo(S, n) ==
    IF n = 0 THEN {<<>>}
    ELSE LET shorter == SeqsUpTo(S, n - 1)
         IN shorter \cup {Append(q, x) : q \in {r \in shorter : Len(r) = n - 1}, x \in S}

OptLists == SeqsUpTo(Options, MaxOpts)

\* opt(f.w) for a non-nil callback
applyOpt(opt, s, by) ==
    CASE opt.op = "Header.Set" -> HeaderSet(s, ContentTypeDummy, by)
      [] opt.op = "WriteHeader" -> WriteHeader(s, opt.code, by)
      [] opt.op = "Write" -> Write(s, RawBytes("dummy-callback-bytes"), by)

(***************************************************************************)
(* State.                                                                  *)
(***************************************************************************)
Calls == {1, 2}
Sinks == {1, 2}

VARIABLES
    gRPCErr,   \* gRPCErr[c]: the error encoder c was created for
    opts,      \* opts[c]: the callbacks of encoder c
    sinkOf,    \* sinkOf[c]: the sink encoder c writes to (f.w)
    pc,        \* pc[c]: position of call c in AsJSON
    idx,       \* idx[c]: index of the next callback in the range loop
    json,      \* json[c]: the serialized status
    ret,       \* ret[c]: what AsJSON returned
    w,         \* w[s]: the sinks
    grpcUnwraps, \* does status.FromError of this build follow the Unwrap chain
    fpc,       \* position of the factory's caller: idle, new, held, wrapped, read
    ctor,      \* the constructor call that was made
    cur,       \* the error the caller holds
    fail,      \* the failure the constructor returned
    last,      \* the last detail-attachment call: input, payload, results
    nAdds,     \* number of detail-attachment calls made
    got        \* what Code, Message and the accessors returned

encVars == <<gRPCErr, opts, sinkOf, pc, idx, json, ret, w>>
facVars == <<grpcUnwraps, fpc, ctor, cur, fail, last, nAdds, got>>
vars == <<encVars, facVars>>

\* AsJSON's results
RetPending == "pending"
RetNil == "nil"
RetErrNil == "invalid argument: gRPCErr was nil"
RetErrRoot == "invalid argument: gRPCErr's root error must have the GRPCStatus() method"
RetErrJSON == "could not get JSON as bytes from gRPC status"
RetPanic == "panic: nil func call"

\* the status of the root error of call c
rootStatus(c) == rootError(gRPCErr[c]).st

\* a failure path that forgets the status and only writes the empty body
respondFailureNoStatus(s) == Write(s, NilBytes, 0)

\* f.w.WriteHeader(http.StatusInternalServerError); f.w.Write(nil)
respondFailure(s) == Write(WriteHeader(s, StatusInternalServerError, 0), NilBytes, 0)

(***************************************************************************)
(* The error factory (grpc.go).  Go-side payload values are records with   *)
(* the field names of the package's structs; a nil pointer is NilPtr, and  *)
(* a nil slice and an empty slice are both the empty sequence.             *)
(***************************************************************************)
NilPtr == [isNil |-> TRUE]

Range(s) == {s[i] : i \in DOMAIN s}

\* DebugInfo{StackEntries, Detail}
ZeroDebugInfo == [StackEntries |-> <<>>, Detail |-> ""]
DummyDebugInfo ==
    [StackEntries |-> <<"dummy-stack-entry-1", "dummy-stack-entry-2">>, Detail |-> "dummy-detail"]
OtherDebugInfo == [StackEntries |-> <<"dummy-stack-entry-2">>, Detail |-> "other-detail"]
BadDebugInfo == [StackEntries |-> <<>>, Detail |-> InvalidUTF8Msg]
DebugInfos == {ZeroDebugInfo, DummyDebugInfo, OtherDebugInfo, BadDebugInfo}

\* RequestInfo{RequestID, ServingData}
ZeroRequestInfo == [RequestID |-> "", ServingData |-> ""]
DummyRequestInfo == [RequestID |-> "dummy-request-id", ServingData |-> "dummy-serving-data"]

\* HelpLink{Description, URL}
DummyHelpLink == [Description |-> "dummy-desc", URL |-> "dummy-url"]
OtherHelpLink == [Description |-> "other-desc", URL |-> "other-url"]

\* LocalizedMessage{Locale, Message}
ZeroLocalizedMessage == [Locale |-> "", Message |-> ""]

\* FieldViolation{Field, Description}
DummyFieldViolation ==
    [Field |-> "dummy-field-violation-field", Description |-> "dummy-field-violation-desc"]
OtherFieldViolation == [Field |-> "other-field", Description |-> ""]
BadFieldViolation == [Field |-> InvalidUTF8Msg, Description |-> "dummy-field-violation-desc"]
FieldViolationLists ==
    {<<>>, <<DummyFieldViolation>>, <<DummyFieldViolation, OtherFieldViolation>>,
     <<OtherFieldViolation, DummyFieldViolation>>, <<BadFieldViolation>>}

\* PreconditionFailure{Type, Subject, Description}
DummyPreconditionFailure ==
    [Type |-> "dummy-type", Subject |-> "dummy-subject", Description |-> "dummy-desc"]
ZeroPreconditionFailure == [Type |-> "", Subject |-> "", Description |-> ""]
PreconditionFailureLists ==
    {<<>>, <<ZeroPreconditionFailure>>, <<DummyPreconditionFailure, ZeroPreconditionFailure>>}

\* ErrorInfo{Reason, Domain, Metadata}; Metadata is a set of <<key, value>>
ZeroErrorInfo == [Reason |-> "", Domain |-> "", Metadata |-> {}]
DummyErrorInfo ==
    [Reason |-> "dummy-reason", Domain |-> "dummy-domain",
     Metadata |-> {<<"dummy-key", "dummy-value">>}]
BadErrorInfo ==
    [Reason |-> "dummy-reason", Domain |-> "dummy-domain",
     Metadata |-> {<<"dummy-key", InvalidUTF8Msg>>}]
ErrorInfos == {ZeroErrorInfo, DummyErrorInfo, BadErrorInfo}

\* ResourceInfo{ResourceType, ResourceName, Owner, Description}
ZeroResourceInfo == [ResourceType |-> "", ResourceName |-> "", Owner |-> "", Description |-> ""]
DummyResourceInfo ==
    [ResourceType |-> "dummy-resource-type", ResourceName |-> "dummy-resource-name",
     Owner |-> "dummy-owner", Description |-> "dummy-desc"]
ResourceInfos == {ZeroResourceInfo, DummyResourceInfo}

\* QuotaViolation{Subject, Description}
DummyQuotaViolation == [Subject |-> "dummy-subject", Description |-> "dummy-desc"]
OtherQuotaViolation == [Subject |-> "other-subject", Description |-> "other-desc"]
QuotaViolationLists ==
    {<<>>, <<DummyQuotaViolation>>, <<OtherQuotaViolation, DummyQuotaViolation>>}

\* errMsg arguments
ErrMsgs == {"", "dummy-msg"}

(***************************************************************************)
(* The errdetails messages built from the Go-side values, field by field.  *)
(***************************************************************************)
errdetailsDebugInfo(d) ==
    [type |-> "google.rpc.DebugInfo", StackEntries |-> d.StackEntries, Detail |-> d.Detail]

errdetailsRequestInfo(r) ==
    [type |-> "google.rpc.RequestInfo", RequestId |-> r.RequestID, ServingData |-> r.ServingData]

errdetailsHelp(links) ==
    [type |-> "google.rpc.Help",
     Links |-> [i \in DOMAIN links |-> [Description |-> links[i].Description, Url |-> links[i].URL]]]

errdetailsLocalizedMessage(m) ==
    [type |-> "google.rpc.LocalizedMessage", Locale |-> m.Locale, Message |-> m.Message]

errdetailsBadRequest(fieldViolations) ==
    [type |-> "google.rpc.BadRequest",
     FieldViolations |->
        [i \in DOMAIN fieldViolations |->
            [Field |-> fieldViolations[i].Field, Description |-> fieldViolations[i].Description]]]

errdetailsPreconditionFailure(failures) ==
    [type |-> "google.rpc.PreconditionFailure",
     Violations |->
        [i \in DOMAIN failures |->
            [Type |-> failures[i].Type, Subject |-> failures[i].Subject,
             Description |-> failures[i].Description]]]

errdetailsErrorInfo(e) ==
    [type |-> "google.rpc.ErrorInfo", Reason |-> e.Reason, Domain |-> e.Domain,
     Metadata |-> e.Metadata]

errdetailsResourceInfo(r) ==
    [type |-> "google.rpc.ResourceInfo", ResourceType |-> r.ResourceType,
     ResourceName |-> r.ResourceName, Owner |-> r.Owner, Description |-> r.Description]

errdetailsQuotaFailure(violations) ==
    [type |-> "google.rpc.QuotaFailure",
     Violations |->
        [i \in DOMAIN violations |->
            [Subject |-> violations[i].Subject, Description |-> violations[i].Description]]]

\* the strings of a message; anypb cannot marshal one that is not valid UTF-8
protoStrings(d) ==
    CASE d.type = "google.rpc.DebugInfo" -> Range(d.StackEntries) \cup {d.Detail}
      [] d.type = "google.rpc.RequestInfo" -> {d.RequestId, d.ServingData}
      [] d.type = "google.rpc.Help" ->
            UNION {{d.Links[i].Description, d.Links[i].Url} : i \in DOMAIN d.Links}
      [] d.type = "google.rpc.LocalizedMessage" -> {d.Locale, d.Message}
      [] d.type = "google.rpc.BadRequest" ->
            UNION {{d.FieldViolations[i].Field, d.FieldViolations[i].Description} :
                     i \in DOMAIN d.FieldViolations}
      [] d.type = "google.rpc.PreconditionFailure" ->
            UNION {{d.Violations[i].Type, d.Violations[i].Subject, d.Violations[i].Description} :
                     i \in DOMAIN d.Violations}
      [] d.type = "google.rpc.ErrorInfo" ->
            {d.Reason, d.Domain} \cup UNION {{kv[1], kv[2]} : kv \in d.Metadata}
      [] d.type = "google.rpc.ResourceInfo" ->
            {d.ResourceType, d.ResourceName, d.Owner, d.Description}
      [] d.type = "google.rpc.QuotaFailure" ->
            UNION {{d.Violations[i].Subject, d.Violations[i].Description} :
                     i \in DOMAIN d.Violations}

protoValid(d) == \A s \in protoStrings(d) : utf8Valid(s)

(***************************************************************************)
(* google.golang.org/grpc/status as grpc.go uses it.                       *)
(***************************************************************************)
\* var st *status.Status, never assigned
NilStatus == [isNil |-> TRUE]

\* a status.New that drops the message
statusNewNoMessage(code, msg) == [code |-> code, message |-> "", details |-> <<>>]

\* status.New(code, msg)
statusNew(code, msg) == [code |-> code, message |-> msg, details |-> <<>>]

\* (*Status).Code() and (*Status).Details(), both defined on a nil *Status
statusCode(st) == IF st = NilStatus THEN 0 ELSE st.code
statusMessage(st) == IF st = NilStatus THEN "" ELSE st.message
statusDetails(st) == IF st = NilStatus THEN <<>> ELSE st.details

ErrNotStatus == "invalid argument: gRPCErr must hold a status.Error struct"
ErrCodeOK == "no error details for status with code OK"
ErrInvalidUTF8 == "proto: field contains invalid UTF-8"

\* a WithDetails that replaces the details instead of appending
WithDetailsReplacing(st, d) ==
    IF statusCode(st) = 0 THEN [st |-> NilStatus, err |-> ErrCodeOK]
    ELSE IF ~protoValid(d) THEN [st |-> NilStatus, err |-> ErrInvalidUTF8]
    ELSE [st |-> [st EXCEPT !.details = <<d>>], err |-> RetNil]

\* st.WithDetails(d): a copy of st with d appended to its details
WithDetails(st, d) ==
    IF statusCode(st) = 0 THEN [st |-> NilStatus, err |-> ErrCodeOK]
    ELSE IF ~protoValid(d) THEN [st |-> NilStatus, err |-> ErrInvalidUTF8]
    ELSE [st |-> [st EXCEPT !.details = Append(@, d)], err |-> RetNil]

\* st.Err(): nil for a nil status and for code OK
Err(st) == IF statusCode(st) = 0 THEN NilErr ELSE StatusErr(st)

\* codes.Code.String()
CodeNames ==
    <<"Canceled", "Unknown", "InvalidArgument", "DeadlineExceeded", "NotFound",
      "AlreadyExists", "PermissionDenied", "ResourceExhausted", "FailedPrecondition",
      "Aborted", "OutOfRange", "Unimplemented", "Internal", "Unavailable", "DataLoss",
      "Unauthenticated">>

CodeString(c) == IF c \in DOMAIN CodeNames THEN CodeNames[c] ELSE "Code(" \o ToString(c) \o ")"

\* err.Error() of a non-nil error
RECURSIVE ErrorText(_)
ErrorText(e) ==
    CASE e.tag = "plain" -> "dummy-error"
      [] e.tag = "status" ->
            "rpc error: code = " \o CodeString(e.st.code) \o " desc = " \o e.st.message
      [] e.tag = "wrap" -> "dummy-wrapping-error: " \o ErrorText(e.inner)

\* a FromError that takes the error text as the message of every status
statusFromErrorTextAsMessage(e, unwraps) ==
    CASE e.tag = "nil" -> [st |-> NilStatus, ok |-> TRUE]
      [] e.tag = "status" -> [st |-> [e.st EXCEPT !.message = ErrorText(e)], ok |-> TRUE]
      [] e.tag = "wrap" /\ unwraps /\ hasGRPCStatus(rootError(e)) ->
            [st |-> [rootError(e).st EXCEPT !.message = ErrorText(e)], ok |-> TRUE]
      [] OTHER -> [st |-> statusNew(Unknown, ErrorText(e)), ok |-> FALSE]

\* a FromError that reports an error without GRPCStatus() as Internal
statusFromErrorInternal(e, unwraps) ==
    CASE e.tag = "nil" -> [st |-> NilStatus, ok |-> TRUE]
      [] e.tag = "status" -> [st |-> e.st, ok |-> TRUE]
      [] e.tag = "wrap" /\ unwraps /\ hasGRPCStatus(rootError(e)) ->
            [st |-> [rootError(e).st EXCEPT !.message = ErrorText(e)], ok |-> TRUE]
      [] OTHER -> [st |-> statusNew(Internal, ErrorText(e)), ok |-> FALSE]

\* status.FromError(err): (nil, true) for nil, the status of a status error,
\* (Unknown, false) for an error without GRPCStatus().  A build whose grpc
\* follows the Unwrap chain (unwraps) finds the status inside a wrapper and
\* returns it with the wrapper's text as message; other builds treat the
\* wrapper as an error without GRPCStatus().
statusFromError(e, unwraps) ==
    CASE e.tag = "nil" -> [st |-> NilStatus, ok |-> TRUE]
      [] e.tag = "status" -> [st |-> e.st, ok |-> TRUE]
      [] e.tag = "wrap" /\ unwraps /\ hasGRPCStatus(rootError(e)) ->
            [st |-> [rootError(e).st EXCEPT !.message = ErrorText(e)], ok |-> TRUE]
      [] OTHER -> [st |-> statusNew(Unknown, ErrorText(e)), ok |-> FALSE]

\* status.Convert(err)
statusConvert(e, unwraps) == statusFromError(e, unwraps).st

(***************************************************************************)
(* The default messages (grpc.go:12-30).                                   *)
(***************************************************************************)
defaultInvalidArgumentErrMsg ==
    "Client specified an invalid argument. Check error details for more information."
defaultOutOfRangeErrMsg == "Client specified an invalid range."
defaultFailedPreconditionErrMsg ==
    "Request can not be executed in the current system state, such as deleting a non-empty directory."
defaultUnauthenticatedErrMsg ==
    "Request not authenticated due to missing, invalid, or expired security credentials."
defaultPermissionDeniedErrMsg ==
    "Client does not have sufficient permission. This can happen because the client doesn't have permission, or the API has not been enabled."
defaultAbortedErrMsg == "Concurrency conflict, such as read-modify-write conflict."
defaultNotFoundErrMsg == "A specified resource is not found."
defaultAlreadyExistsErrMsg == "Resource a client tried to create already exists."
defaultResourceExhaustedErrMsg ==
    "Either out of resource quota or reaching rate limiting. The client should look for google.rpc.QuotaFailure error detail for more information."
defaultCanceledErrMsg == "Request cancelled by the client."
defaultDataLossErrMsg ==
    "Unrecoverable data loss or data corruption. The client should report the error to the user."
defaultUnknownErrMsg == "Unknown server error. Typically a server bug."
defaultInternalErrMsg == "Internal server error. Typically a server bug."
defaultUnimplementedErrMsg == "API method not implemented by the server."
defaultUnavailableErrMsg == "Service unavailable. Typically the server is down."
defaultDeadlineExceededErrMsg ==
    "Request deadline exceeded. This will happen only if the caller sets a deadline that is shorter than the method's default deadline (i.e. requested deadline is not enough for the server to process the request) and the request did not finish within the deadline."

(***************************************************************************)
(* The status builders shared by the constructors.  Each returns the pair  *)
(* (st, err) of the Go function.                                           *)
(***************************************************************************)
newStatusWithBadRequestDetails(code, errMsg, fieldViolations) ==
    LET st == IF errMsg = ""
              THEN CASE code = InvalidArgument -> statusNew(code, defaultInvalidArgumentErrMsg)
                     [] code = OutOfRange -> statusNew(code, defaultOutOfRangeErrMsg)
                     [] OTHER -> NilStatus
              ELSE statusNew(code, errMsg)
    IN  IF Len(fieldViolations) = 0 THEN [st |-> st, err |-> RetNil]
        ELSE WithDetails(st, errdetailsBadRequest(fieldViolations))

newStatusWithFailedPreconditionDetails(code, errMsg, failures) ==
    LET st == IF errMsg = "" THEN statusNew(code, defaultFailedPreconditionErrMsg)
              ELSE statusNew(code, errMsg)
    IN  IF Len(failures) = 0 THEN [st |-> st, err |-> RetNil]
        ELSE WithDetails(st, errdetailsPreconditionFailure(failures))

newStatusWithErrorInfo(code, errMsg, errorInfo) ==
    LET st == IF errMsg = ""
              THEN CASE code = Unauthenticated -> statusNew(code, defaultUnauthenticatedErrMsg)
                     [] code = PermissionDenied -> statusNew(code, defaultPermissionDeniedErrMsg)
                     [] code = Aborted -> statusNew(code, defaultAbortedErrMsg)
                     [] OTHER -> NilStatus
              ELSE statusNew(code, errMsg)
    IN  IF errorInfo = NilPtr THEN [st |-> st, err |-> RetNil]
        ELSE WithDetails(st, errdetailsErrorInfo(errorInfo))

newStatusWithResourceInfo(code, errMsg, resourceInfo) ==
    LET st == IF errMsg = ""
              THEN CASE code = NotFound -> statusNew(code, defaultNotFoundErrMsg)
                     [] code = AlreadyExists -> statusNew(code, defaultAlreadyExistsErrMsg)
                     [] OTHER -> NilStatus
              ELSE statusNew(code, errMsg)
    IN  IF resourceInfo = NilPtr THEN [st |-> st, err |-> RetNil]
        ELSE WithDetails(st, errdetailsResourceInfo(resourceInfo))

newStatusWithQuotaFailure(code, errMsg, violations) ==
    LET st == IF errMsg = "" THEN statusNew(code, defaultResourceExhaustedErrMsg)
              ELSE statusNew(code, errMsg)
    IN  IF Len(violations) = 0 THEN [st |-> st, err |-> RetNil]
        ELSE WithDetails(st, errdetailsQuotaFailure(violations))

\* a builder that attaches a zero-valued DebugInfo for a nil argument
newStatusWithDebugInfoAlways(code, errMsg, debugInfo) ==
    LET st == IF errMsg = ""
              THEN CASE code = DataLoss -> statusNew(code, defaultDataLossErrMsg)
                     [] code = Unknown -> statusNew(code, defaultUnknownErrMsg)
                     [] code = Internal -> statusNew(code, defaultInternalErrMsg)
                     [] code = Unavailable -> statusNew(code, defaultUnavailableErrMsg)
                     [] code = DeadlineExceeded -> statusNew(code, defaultDeadlineExceededErrMsg)
                     [] OTHER -> NilStatus
              ELSE statusNew(code, errMsg)
    IN  WithDetails(st, errdetailsDebugInfo(IF debugInfo = NilPtr THEN ZeroDebugInfo ELSE debugInfo))

newStatusWithDebugInfo(code, errMsg, debugInfo) ==
    LET st == IF errMsg = ""
              THEN CASE code = DataLoss -> statusNew(code, defaultDataLossErrMsg)
                     [] code = Unknown -> statusNew(code, defaultUnknownErrMsg)
                     [] code = Internal -> statusNew(code, defaultInternalErrMsg)
                     [] code = Unavailable -> statusNew(code, defaultUnavailableErrMsg)
                     [] code = DeadlineExceeded -> statusNew(code, defaultDeadlineExceededErrMsg)
                     [] OTHER -> NilStatus
              ELSE statusNew(code, errMsg)
    IN  IF debugInfo = NilPtr THEN [st |-> st, err |-> RetNil]
        ELSE WithDetails(st, errdetailsDebugInfo(debugInfo))

(***************************************************************************)
(* The 16 constructors.  Each returns [err, fail]: the error value and the *)
(* failure of the Go function (NewCancelled and NewUnimplemented return    *)
(* the error value only, fail is then always nil).                         *)
(***************************************************************************)
\* if err != nil { return nil, err }; return st.Err(), nil
errFrom(r) ==
    IF r.err # RetNil THEN [err |-> NilErr, fail |-> r.err]
    ELSE [err |-> Err(r.st), fail |-> RetNil]

NewInvalidArgument(errMsg, fieldViolations) ==
    errFrom(newStatusWithBadRequestDetails(InvalidArgument, errMsg, fieldViolations))

NewOutOfRange(errMsg, fieldViolations) ==
    errFrom(newStatusWithBadRequestDetails(OutOfRange, errMsg, fieldViolations))

NewFailedPrecondition(errMsg, failures) ==
    errFrom(newStatusWithFailedPreconditionDetails(FailedPrecondition, errMsg, failures))

NewUnauthenticated(errMsg, errorInfo) ==
    errFrom(newStatusWithErrorInfo(Unauthenticated, errMsg, errorInfo))

NewPermissionDenied(errMsg, errorInfo) ==
    errFrom(newStatusWithErrorInfo(PermissionDenied, errMsg, errorInfo))

NewAborted(errMsg, errorInfo) ==
    errFrom(newStatusWithErrorInfo(Aborted, errMsg, errorInfo))

NewNotFound(errMsg, resourceInfo) ==
    errFrom(newStatusWithResourceInfo(NotFound, errMsg, resourceInfo))

NewAlreadyExists(errMsg, resourceInfo) ==
    errFrom(newStatusWithResourceInfo(AlreadyExists, errMsg, resourceInfo))

NewResourceExhausted(errMsg, quotaViolations) ==
    errFrom(newStatusWithQuotaFailure(ResourceExhausted, errMsg, quotaViolations))

NewCancelled(errMsg) ==
    LET st == IF errMsg = "" THEN statusNew(Canceled, defaultCanceledErrMsg)
              ELSE statusNew(Canceled, errMsg)
    IN  [err |-> Err(st), fail |-> RetNil]

\* NewDataLoss builds its status itself (grpc.go:828-851)
NewDataLoss(errMsg, debugInfo) ==
    LET st == IF errMsg = "" THEN statusNew(DataLoss, defaultCanceledErrMsg)
              ELSE statusNew(DataLoss, errMsg)
    IN  IF debugInfo = NilPtr THEN [err |-> Err(st), fail |-> RetNil]
        ELSE errFrom(WithDetails(st, errdetailsDebugInfo(debugInfo)))

NewUnknown(errMsg, debugInfo) ==
    errFrom(newStatusWithDebugInfo(Unknown, errMsg, debugInfo))

NewInternal(errMsg, debugInfo) ==
    errFrom(newStatusWithDebugInfo(Internal, errMsg, debugInfo))

NewUnimplemented(errMsg) ==
    LET st == IF errMsg = "" THEN statusNew(Unimplemented, defaultUnimplementedErrMsg)
              ELSE statusNew(Unimplemented, errMsg)
    IN  [err |-> Err(st), fail |-> RetNil]

NewUnavailable(errMsg, debugInfo) ==
    errFrom(newStatusWithDebugInfo(Unavailable, errMsg, debugInfo))

NewDeadlineExceeded(errMsg, debugInfo) ==
    errFrom(newStatusWithDebugInfo(DeadlineExceeded, errMsg, debugInfo))

(***************************************************************************)
(* The accessors: status.Convert, then the first detail of the type.       *)
(* unwraps tells whether the build's status.FromError follows Unwrap.      *)
(***************************************************************************)
\* a scan that keeps the last detail of the type
RECURSIVE lastDetailOf(_, _)
lastDetailOf(details, type) ==
    IF details = <<>> THEN 0
    ELSE IF details[Len(details)].type = type THEN Len(details)
    ELSE lastDetailOf(SubSeq(details, 1, Len(details) - 1), type)

\* for _, detail := range st.Details() { if d, ok := detail.(*T); ok { return ... } }
\* the index of the first detail of the type, 0 when there is none
RECURSIVE firstDetailOf(_, _)
firstDetailOf(details, type) ==
    IF details = <<>> THEN 0
    ELSE IF Head(details).type = type THEN 1
    ELSE LET i == firstDetailOf(Tail(details), type) IN IF i = 0 THEN 0 ELSE i + 1

DebugInfoFrom(e, unwraps) ==
    LET ds == statusDetails(statusConvert(e, unwraps))
        i == firstDetailOf(ds, "google.rpc.DebugInfo")
    IN  IF i = 0 THEN ZeroDebugInfo
        ELSE [StackEntries |-> ds[i].StackEntries, Detail |-> ds[i].Detail]

RequestInfoFrom(e, unwraps) ==
    LET ds == statusDetails(statusConvert(e, unwraps))
        i == firstDetailOf(ds, "google.rpc.RequestInfo")
    IN  IF i = 0 THEN ZeroRequestInfo
        ELSE [RequestID |-> ds[i].RequestId, ServingData |-> ds[i].ServingData]

HelpLinksFrom(e, unwraps) ==
    LET ds == statusDetails(statusConvert(e, unwraps))
        i == firstDetailOf(ds, "google.rpc.Help")
    IN  IF i = 0 THEN <<>>
        ELSE [j \in DOMAIN ds[i].Links |->
                [Description |-> ds[i].Links[j].Description, URL |-> ds[i].Links[j].Url]]

LocalizedMessageFrom(e, unwraps) ==
    LET ds == statusDetails(statusConvert(e, unwraps))
        i == firstDetailOf(ds, "google.rpc.LocalizedMessage")
    IN  IF i = 0 THEN ZeroLocalizedMessage
        ELSE [Locale |-> ds[i].Locale, Message |-> ds[i].Message]

\* an accessor that returns the violations in reverse order
FieldViolationsFromReversed(e, unwraps) ==
    LET ds == statusDetails(statusConvert(e, unwraps))
        i == firstDetailOf(ds, "google.rpc.BadRequest")
    IN  IF i = 0 THEN <<>>
        ELSE LET n == Len(ds[i].FieldViolations)
             IN  [j \in DOMAIN ds[i].FieldViolations |->
                    [Field |-> ds[i].FieldViolations[n + 1 - j].Field,
                     Description |-> ds[i].FieldViolations[n + 1 - j].Description]]

FieldViolationsFrom(e, unwraps) ==
    LET ds == statusDetails(statusConvert(e, unwraps))
        i == firstDetailOf(ds, "google.rpc.BadRequest")
    IN  IF i = 0 THEN <<>>
        ELSE [j \in DOMAIN ds[i].FieldViolations |->
                [Field |-> ds[i].FieldViolations[j].Field,
                 Description |-> ds[i].FieldViolations[j].Description]]

PreconditionFailuresFrom(e, unwraps) ==
    LET ds == statusDetails(statusConvert(e, unwraps))
        i == firstDetailOf(ds, "google.rpc.PreconditionFailure")
    IN  IF i = 0 THEN <<>>
        ELSE [j \in DOMAIN ds[i].Violations |->
                [Type |-> ds[i].Violations[j].Type, Subject |-> ds[i].Violations[j].Subject,
                 Description |-> ds[i].Violations[j].Description]]

ErrorInfoFrom(e, unwraps) ==
    LET ds == statusDetails(statusConvert(e, unwraps))
        i == firstDetailOf(ds, "google.rpc.ErrorInfo")
    IN  IF i = 0 THEN ZeroErrorInfo
        ELSE [Reason |-> ds[i].Reason, Domain |-> ds[i].Domain, Metadata |-> ds[i].Metadata]

ResourceInfoFrom(e, unwraps) ==
    LET ds == statusDetails(statusConvert(e, unwraps))
        i == firstDetailOf(ds, "google.rpc.ResourceInfo")
    IN  IF i = 0 THEN ZeroResourceInfo
        ELSE [ResourceType |-> ds[i].ResourceType, ResourceName |-> ds[i].ResourceName,
              Owner |-> ds[i].Owner, Description |-> ds[i].Description]

QuotaViolationsFrom(e, unwraps) ==
    LET ds == statusDetails(statusConvert(e, unwraps))
        i == firstDetailOf(ds, "google.rpc.QuotaFailure")
    IN  IF i = 0 THEN <<>>
        ELSE [j \in DOMAIN ds[i].Violations |->
                [Subject |-> ds[i].Violations[j].Subject,
                 Description |-> ds[i].Violations[j].Description]]

\* Code(gRPCErr) and Message(gRPCErr)
Code(e, unwraps) == statusCode(statusConvert(e, unwraps))
Message(e, unwraps) == statusMessage(statusConvert(e, unwraps))

(***************************************************************************)
(* The detail-attachment helpers.  Each returns [err, fail].               *)
(***************************************************************************)
\* an AddDebugInfo that attaches a zero-valued DebugInfo for a nil argument
AddDebugInfoZeroForNil(e, debugInfo, unwraps) ==
    LET r == statusFromError(e, unwraps)
        d == IF debugInfo = NilPtr THEN ZeroDebugInfo ELSE debugInfo
    IN  IF ~r.ok THEN [err |-> NilErr, fail |-> ErrNotStatus]
        ELSE errFrom(WithDetails(r.st, errdetailsDebugInfo(d)))

AddDebugInfo(e, debugInfo, unwraps) ==
    IF debugInfo = NilPtr THEN [err |-> e, fail |-> RetNil]
    ELSE LET r == statusFromError(e, unwraps)
         IN  IF ~r.ok THEN [err |-> NilErr, fail |-> ErrNotStatus]
             ELSE errFrom(WithDetails(r.st, errdetailsDebugInfo(debugInfo)))

AddRequestInfo(e, requestInfo, unwraps) ==
    IF requestInfo = NilPtr THEN [err |-> e, fail |-> RetNil]
    ELSE LET r == statusFromError(e, unwraps)
         IN  IF ~r.ok THEN [err |-> NilErr, fail |-> ErrNotStatus]
             ELSE errFrom(WithDetails(r.st, errdetailsRequestInfo(requestInfo)))

\* an AddHelp that does not test ok and attaches to whatever FromError returned
AddHelpUnchecked(e, links, unwraps) ==
    IF Len(links) = 0 THEN [err |-> e, fail |-> RetNil]
    ELSE errFrom(WithDetails(statusFromError(e, unwraps).st, errdetailsHelp(links)))

AddHelp(e, links, unwraps) ==
    IF Len(links) = 0 THEN [err |-> e, fail |-> RetNil]
    ELSE LET r == statusFromError(e, unwraps)
         IN  IF ~r.ok THEN [err |-> NilErr, fail |-> ErrNotStatus]
             ELSE errFrom(WithDetails(r.st, errdetailsHelp(links)))

\* an AddLocalizedMessage that attaches its payload twice
AddLocalizedMessageTwice(e, localizedMsg, unwraps) ==
    IF localizedMsg = NilPtr THEN [err |-> e, fail |-> RetNil]
    ELSE LET r == statusFromError(e, unwraps)
             once == WithDetails(r.st, errdetailsLocalizedMessage(localizedMsg))
         IN  IF ~r.ok THEN [err |-> NilErr, fail |-> ErrNotStatus]
             ELSE IF once.err # RetNil THEN errFrom(once)
             ELSE errFrom(WithDetails(once.st, errdetailsLocalizedMessage(localizedMsg)))

AddLocalizedMessage(e, localizedMsg, unwraps) ==
    IF localizedMsg = NilPtr THEN [err |-> e, fail |-> RetNil]
    ELSE LET r == statusFromError(e, unwraps)
         IN  IF ~r.ok THEN [err |-> NilErr, fail |-> ErrNotStatus]
             ELSE errFrom(WithDetails(r.st, errdetailsLocalizedMessage(localizedMsg)))

(***************************************************************************)
(* AsJSON, step by step.                                                   *)
(***************************************************************************)
\* if f.gRPCErr == nil { 500, empty body, return error }
AsJSONNil(c) ==
    /\ pc[c] = "start"
    /\ gRPCErr[c] = NilErr
    /\ w' = [w EXCEPT ![sinkOf[c]] = respondFailure(@)]
    /\ ret' = [ret EXCEPT ![c] = RetErrNil]
    /\ pc' = [pc EXCEPT ![c] = "done"]
    /\ UNCHANGED <<facVars, gRPCErr, opts, sinkOf, idx, json>>

\* a capability test placed after the default Content-Type is set
AsJSONNoStatusAfterContentType(c) ==
    /\ pc[c] = "start"
    /\ gRPCErr[c] # NilErr
    /\ ~hasGRPCStatus(rootError(gRPCErr[c]))
    /\ w' = [w EXCEPT ![sinkOf[c]] = respondFailure(HeaderSet(@, ContentTypeJSON, 0))]
    /\ ret' = [ret EXCEPT ![c] = RetErrRoot]
    /\ pc' = [pc EXCEPT ![c] = "done"]
    /\ UNCHANGED <<facVars, gRPCErr, opts, sinkOf, idx, json>>

\* the root error has no GRPCStatus(): 500, empty body, return error
AsJSONNoStatus(c) ==
    /\ pc[c] = "start"
    /\ gRPCErr[c] # NilErr
    /\ ~hasGRPCStatus(rootError(gRPCErr[c]))
    /\ w' = [w EXCEPT ![sinkOf[c]] = respondFailure(@)]
    /\ ret' = [ret EXCEPT ![c] = RetErrRoot]
    /\ pc' = [pc EXCEPT ![c] = "done"]
    /\ UNCHANGED <<facVars, gRPCErr, opts, sinkOf, idx, json>>

\* a failure path without its return: after 500 and the empty body the
\* encoder goes on with the default Content-Type and the callbacks
AsJSONMarshalFailedGoesOn(c) ==
    /\ pc[c] = "start"
    /\ gRPCErr[c] # NilErr
    /\ hasGRPCStatus(rootError(gRPCErr[c]))
    /\ ~jsonBytesFromGrpcStatus(rootStatus(c)).ok
    /\ w' = [w EXCEPT ![sinkOf[c]] = HeaderSet(respondFailure(@), ContentTypeJSON, 0)]
    /\ ret' = [ret EXCEPT ![c] = RetErrJSON]
    /\ idx' = [idx EXCEPT ![c] = 1]
    /\ pc' = [pc EXCEPT ![c] = "opts"]
    /\ UNCHANGED <<facVars, gRPCErr, opts, sinkOf, json>>

\* a rendering made after the default Content-Type was set
AsJSONMarshalFailedAfterContentType(c) ==
    /\ pc[c] = "start"
    /\ gRPCErr[c] # NilErr
    /\ hasGRPCStatus(rootError(gRPCErr[c]))
    /\ ~jsonBytesFromGrpcStatus(rootStatus(c)).ok
    /\ w' = [w EXCEPT ![sinkOf[c]] = respondFailure(HeaderSet(@, ContentTypeJSON, 0))]
    /\ ret' = [ret EXCEPT ![c] = RetErrJSON]
    /\ pc' = [pc EXCEPT ![c] = "done"]
    /\ UNCHANGED <<facVars, gRPCErr, opts, sinkOf, idx, json>>

\* json, err := jsonBytesFromGrpcStatus(st); err != nil
AsJSONMarshalFailed(c) ==
    /\ pc[c] = "start"
    /\ gRPCErr[c] # NilErr
    /\ hasGRPCStatus(rootError(gRPCErr[c]))
    /\ ~jsonBytesFromGrpcStatus(rootStatus(c)).ok
    /\ w' = [w EXCEPT ![sinkOf[c]] = respondFailure(@)]
    /\ ret' = [ret EXCEPT ![c] = RetErrJSON]
    /\ pc' = [pc EXCEPT ![c] = "done"]
    /\ UNCHANGED <<facVars, gRPCErr, opts, sinkOf, idx, json>>

\* an encoder that writes the status right after the default Content-Type,
\* before the callbacks run
AsJSONSetContentTypeAndStatus(c) ==
    /\ pc[c] = "start"
    /\ gRPCErr[c] # NilErr
    /\ hasGRPCStatus(rootError(gRPCErr[c]))
    /\ jsonBytesFromGrpcStatus(rootStatus(c)).ok
    /\ json' = [json EXCEPT ![c] = jsonBytesFromGrpcStatus(rootStatus(c)).data]
    /\ w' = [w EXCEPT ![sinkOf[c]] =
                WriteHeader(HeaderSet(@, ContentTypeJSON, 0), httpStatusCodeFrom(rootStatus(c)), 0)]
    /\ idx' = [idx EXCEPT ![c] = 1]
    /\ pc' = [pc EXCEPT ![c] = "opts"]
    /\ UNCHANGED <<facVars, gRPCErr, opts, sinkOf, ret>>

\* json, err := jsonBytesFromGrpcStatus(st); f.w.Header().Set("Content-Type", ...)
AsJSONSetContentType(c) ==
    /\ pc[c] = "start"
    /\ gRPCErr[c] # NilErr
    /\ hasGRPCStatus(rootError(gRPCErr[c]))
    /\ jsonBytesFromGrpcStatus(rootStatus(c)).ok
    /\ json' = [json EXCEPT ![c] = jsonBytesFromGrpcStatus(rootStatus(c)).data]
    /\ w' = [w EXCEPT ![sinkOf[c]] = HeaderSet(@, ContentTypeJSON, 0)]
    /\ idx' = [idx EXCEPT ![c] = 1]
    /\ pc' = [pc EXCEPT ![c] = "opts"]
    /\ UNCHANGED <<facVars, gRPCErr, opts, sinkOf, ret>>

\* a loop that runs the callbacks last to first
nextOptReversed(os, k) == os[Len(os) + 1 - k]

\* the callback the range loop runs in its k-th iteration
nextOpt(os, k) == os[k]

\* for _, opt := range f.opts { opt(f.w) }: one iteration
AsJSONApplyOpt(c) ==
    /\ pc[c] = "opts"
    /\ idx[c] <= Len(opts[c])
    /\ LET opt == nextOpt(opts[c], idx[c])
       IN IF opt.op = "nil"
          THEN /\ pc' = [pc EXCEPT ![c] = "panicked"]
               /\ ret' = [ret EXCEPT ![c] = RetPanic]
               /\ UNCHANGED <<w, idx>>
          ELSE /\ w' = [w EXCEPT ![sinkOf[c]] = applyOpt(opt, @, idx[c])]
               /\ idx' = [idx EXCEPT ![c] = @ + 1]
               /\ UNCHANGED <<pc, ret>>
    /\ UNCHANGED <<facVars, gRPCErr, opts, sinkOf, json>>

\* an encoder that leaves out its status write when the sink has sent one
AsJSONWriteHeaderUnlessSent(c) ==
    /\ pc[c] = "opts"
    /\ idx[c] > Len(opts[c])
    /\ w' = [w EXCEPT ![sinkOf[c]] =
                IF @.wroteHeader THEN @ ELSE WriteHeader(@, httpStatusCodeFrom(rootStatus(c)), 0)]
    /\ pc' = [pc EXCEPT ![c] = "body"]
    /\ UNCHANGED <<facVars, gRPCErr, opts, sinkOf, idx, json, ret>>

\* f.w.WriteHeader(httpStatusCodeFrom(st))
AsJSONWriteHeader(c) ==
    /\ pc[c] = "opts"
    /\ idx[c] > Len(opts[c])
    /\ w' = [w EXCEPT ![sinkOf[c]] = WriteHeader(@, httpStatusCodeFrom(rootStatus(c)), 0)]
    /\ pc' = [pc EXCEPT ![c] = "body"]
    /\ UNCHANGED <<facVars, gRPCErr, opts, sinkOf, idx, json, ret>>

\* an encoder that keeps the rendered JSON in one package-level variable,
\* the one the first encoder filled
AsJSONWriteBodySharedJSON(c) ==
    /\ pc[c] = "body"
    /\ w' = [w EXCEPT ![sinkOf[c]] = Write(@, json[1], 0)]
    /\ ret' = [ret EXCEPT ![c] = RetNil]
    /\ pc' = [pc EXCEPT ![c] = "done"]
    /\ UNCHANGED <<facVars, gRPCErr, opts, sinkOf, idx, json>>

\* f.w.Write(json); return nil
AsJSONWriteBody(c) ==
    /\ pc[c] = "body"
    /\ w' = [w EXCEPT ![sinkOf[c]] = Write(@, json[c], 0)]
    /\ ret' = [ret EXCEPT ![c] = RetNil]
    /\ pc' = [pc EXCEPT ![c] = "done"]
    /\ UNCHANGED <<facVars, gRPCErr, opts, sinkOf, idx, json>>

\* the factory's variables while only encoders run; the encoder does not
\* call status.FromError, so one build stands for both
NoCtor == [name |-> "none", code |-> 0, errMsg |-> "", ptr |-> NilPtr, list |-> <<>>]
NoAdd ==
    [op |-> "none", in |-> NilErr, after |-> NilErr, ptr |-> NilPtr, list |-> <<>>,
     out |-> NilErr, fail |-> RetNil]
NoRead == [read |-> FALSE]

FactoryIdle ==
    /\ grpcUnwraps = FALSE
    /\ fpc = "idle"
    /\ ctor = NoCtor
    /\ cur = NilErr
    /\ fail = RetNil
    /\ last = NoAdd
    /\ nAdds = 0
    /\ got = NoRead

(***************************************************************************)
(* Spec: one encoder, created by NewHttpResponseEncodeWriter(w, opts...)   *)
(* for any error and any callbacks, writing to a fresh sink.               *)
(***************************************************************************)
Init ==
    /\ \E e \in Errors, os \in OptLists :
          /\ gRPCErr = [c \in Calls |-> IF c = 1 THEN e ELSE NilErr]
          /\ opts = [c \in Calls |-> IF c = 1 THEN os ELSE <<>>]
    /\ sinkOf = [c \in Calls |-> c]
    /\ pc = [c \in Calls |-> IF c = 1 THEN "start" ELSE "idle"]
    /\ idx = [c \in Calls |-> 0]
    /\ json = [c \in Calls |-> NilBytes]
    /\ ret = [c \in Calls |-> RetPending]
    /\ w = [s \in Sinks |-> FreshSink]
    /\ FactoryIdle

Next ==
    \/ \E c \in Calls : AsJSONNil(c)
    \/ \E c \in Calls : AsJSONNoStatus(c)
    \/ \E c \in Calls : AsJSONMarshalFailed(c)
    \/ \E c \in Calls : AsJSONSetContentType(c)
    \/ \E c \in Calls : AsJSONApplyOpt(c)
    \/ \E c \in Calls : AsJSONWriteHeader(c)
    \/ \E c \in Calls : AsJSONWriteBody(c)

Spec == Init /\ [][Next]_vars

(***************************************************************************)
(* SpecWrap: two encoders with the same callbacks on two fresh sinks; the  *)
(* first is given an error wrapped n times, the second the error itself.   *)
(***************************************************************************)
WrapCodes == {Unimplemented, Unauthenticated, IllegalCode}
WrapRoots == {PlainErr} \cup {StatusErr(st) : st \in [code : WrapCodes, message : Messages, details : DetailLists]}
WrapPairs == {<<NilErr, NilErr>>} \cup {<<Wrapped(e, n), e>> : e \in WrapRoots, n \in 0..MaxWrap}

InitWrap ==
    /\ \E p \in WrapPairs, os \in OptLists :
          /\ gRPCErr = [c \in Calls |-> p[c]]
          /\ opts = [c \in Calls |-> os]
    /\ sinkOf = [c \in Calls |-> c]
    /\ pc = [c \in Calls |-> "start"]
    /\ idx = [c \in Calls |-> 0]
    /\ json = [c \in Calls |-> NilBytes]
    /\ ret = [c \in Calls |-> RetPending]
    /\ w = [s \in Sinks |-> FreshSink]
    /\ FactoryIdle

SpecWrap == InitWrap /\ [][Next]_vars

(***************************************************************************)
(* A whole encode as one function of the error, the callbacks and the sink *)
(* it starts from: what AsJSON does when nothing else touches the sink.    *)
(***************************************************************************)
\* the index of the first nil callback of the list, 0 when there is none
firstNilOpt(os) ==
    IF \E k \in DOMAIN os : os[k] = OptNil
    THEN CHOOSE k \in DOMAIN os : os[k] = OptNil /\ \A j \in 1..(k - 1) : os[j] # OptNil
    ELSE 0

\* the first n iterations of the range loop over the callbacks
RECURSIVE runOpts(_, _, _)
runOpts(os, n, s) == IF n = 0 THEN s ELSE applyOpt(os[n], runOpts(os, n - 1, s), n)

\* AsJSON from its first statement to its return (or to the panic of a nil
\* callback): the sink it leaves and what it returns
AsJSONRun(e, os, s) ==
    IF e = NilErr THEN [w |-> respondFailure(s), ret |-> RetErrNil]
    ELSE IF ~hasGRPCStatus(rootError(e)) THEN [w |-> respondFailure(s), ret |-> RetErrRoot]
    ELSE LET st == rootError(e).st
             j == jsonBytesFromGrpcStatus(st)
             nil == firstNilOpt(os)
             ran == IF nil = 0 THEN Len(os) ELSE nil - 1
             afterOpts == runOpts(os, ran, HeaderSet(s, ContentTypeJSON, 0))
         IN  IF ~j.ok THEN [w |-> respondFailure(s), ret |-> RetErrJSON]
             ELSE IF nil # 0 THEN [w |-> afterOpts, ret |-> RetPanic]
             ELSE [w |-> Write(WriteHeader(afterOpts, httpStatusCodeFrom(st), 0), j.data, 0),
                   ret |-> RetNil]

(***************************************************************************)
(* SpecSeq: the function returned by NewHttpResponseEncodeWriter(w,        *)
(* opts...) is used twice, for two errors, one encode after the other: the *)
(* two encoders share the sink and the callbacks.  The first error may be  *)
(* the one of the documented example, NewUnimplemented("").                *)
(***************************************************************************)
\* the errors handed to the two encodes
SeqErrors ==
    {NilErr, PlainErr, NewUnimplemented("").err,
     NewAborted("dummy-msg", DummyErrorInfo).err,
     WrapErr(NewInternal("", DummyDebugInfo).err),
     StatusErr(statusNew(Unknown, InvalidUTF8Msg))}

InitSeq ==
    /\ \E e1 \in SeqErrors, e2 \in SeqErrors, os \in OptLists :
          /\ gRPCErr = [c \in Calls |-> IF c = 1 THEN e1 ELSE e2]
          /\ opts = [c \in Calls |-> os]
    /\ sinkOf = [c \in Calls |-> 1]
    /\ pc = [c \in Calls |-> IF c = 1 THEN "start" ELSE "waiting"]
    /\ idx = [c \in Calls |-> 0]
    /\ json = [c \in Calls |-> NilBytes]
    /\ ret = [c \in Calls |-> RetPending]
    /\ w = [s \in Sinks |-> FreshSink]
    /\ FactoryIdle

\* an encode function that hands each encode a recorder of its own
EncodeAgainOnFreshSink ==
    /\ pc[1] = "done"
    /\ pc[2] = "waiting"
    /\ pc' = [pc EXCEPT ![2] = "start"]
    /\ w' = [w EXCEPT ![sinkOf[2]] = FreshSink]
    /\ UNCHANGED <<facVars, gRPCErr, opts, sinkOf, idx, json, ret>>

\* the caller's second encodeAndWrite(err).AsJSON(), made once the first returned
EncodeAgain ==
    /\ pc[1] = "done"
    /\ pc[2] = "waiting"
    /\ pc' = [pc EXCEPT ![2] = "start"]
    /\ UNCHANGED <<facVars, gRPCErr, opts, sinkOf, idx, json, ret, w>>

NextSeq ==
    \/ \E c \in Calls : AsJSONNil(c)
    \/ \E c \in Calls : AsJSONNoStatus(c)
    \/ \E c \in Calls : AsJSONMarshalFailed(c)
    \/ \E c \in Calls : AsJSONSetContentType(c)
    \/ \E c \in Calls : AsJSONApplyOpt(c)
    \/ \E c \in Calls : AsJSONWriteHeader(c)
    \/ \E c \in Calls : AsJSONWriteBody(c)
    \/ EncodeAgain

SpecSeq == InitSeq /\ [][NextSeq]_vars

(***************************************************************************)
(* SpecConc: two independent callers, each with its own sink, its own      *)
(* callbacks and its own error, encode at the same time; the steps of the  *)
(* two AsJSON calls interleave in every order.                             *)
(***************************************************************************)
ConcErrors ==
    {NilErr, PlainErr, NewUnimplemented("").err,
     NewAborted("dummy-msg", DummyErrorInfo).err,
     StatusErr(statusNew(Unknown, InvalidUTF8Msg))}

\* the callbacks of the first caller, and those of the second
ConcOptLists == SeqsUpTo({OptSetContentType, OptWriteBody, OptWriteHeader(202), OptNil}, MaxOpts)
ConcOptListsOther == {<<>>, <<OptWriteHeader(StatusOK)>>, <<OptSetContentType, OptWriteBody>>}

InitConc ==
    /\ \E e1 \in ConcErrors, e2 \in ConcErrors, os1 \in ConcOptLists,
          os2 \in ConcOptListsOther :
          /\ e1 # e2
          /\ gRPCErr = [c \in Calls |-> IF c = 1 THEN e1 ELSE e2]
          /\ opts = [c \in Calls |-> IF c = 1 THEN os1 ELSE os2]
    /\ sinkOf = [c \in Calls |-> c]
    /\ pc = [c \in Calls |-> "start"]
    /\ idx = [c \in Calls |-> 0]
    /\ json = [c \in Calls |-> NilBytes]
    /\ ret = [c \in Calls |-> RetPending]
    /\ w = [s \in Sinks |-> FreshSink]
    /\ FactoryIdle

SpecConc == InitConc /\ [][Next]_vars

(***************************************************************************)
(* SpecErr: a caller of the error factory.  It constructs an error with    *)
(* one of the 16 constructors (or holds a nil, plain or wrapped error),    *)
(* attaches details, passes the error up a call stack that wraps it, and   *)
(* finally reads it with every accessor.  No encoder runs.                 *)
(***************************************************************************)
\* the caller keeps what a constructor returned
Constructed(name, code, errMsg, ptr, list, r) ==
    /\ fpc' = "held"
    /\ ctor' = [name |-> name, code |-> code, errMsg |-> errMsg, ptr |-> ptr, list |-> list]
    /\ cur' = r.err
    /\ fail' = r.fail
    /\ UNCHANGED <<encVars, grpcUnwraps, last, nAdds, got>>

CallNewInvalidArgument ==
    \E errMsg \in ErrMsgs, fvs \in FieldViolationLists :
        /\ fpc = "new"
        /\ Constructed("NewInvalidArgument", InvalidArgument, errMsg, NilPtr, fvs,
                       NewInvalidArgument(errMsg, fvs))

CallNewOutOfRange ==
    \E errMsg \in ErrMsgs, fvs \in FieldViolationLists :
        /\ fpc = "new"
        /\ Constructed("NewOutOfRange", OutOfRange, errMsg, NilPtr, fvs,
                       NewOutOfRange(errMsg, fvs))

CallNewFailedPrecondition ==
    \E errMsg \in ErrMsgs, failures \in PreconditionFailureLists :
        /\ fpc = "new"
        /\ Constructed("NewFailedPrecondition", FailedPrecondition, errMsg, NilPtr, failures,
                       NewFailedPrecondition(errMsg, failures))

CallNewUnauthenticated ==
    \E errMsg \in ErrMsgs, errorInfo \in {NilPtr} \cup ErrorInfos :
        /\ fpc = "new"
        /\ Constructed("NewUnauthenticated", Unauthenticated, errMsg, errorInfo, <<>>,
                       NewUnauthenticated(errMsg, errorInfo))

CallNewPermissionDenied ==
    \E errMsg \in ErrMsgs, errorInfo \in {NilPtr} \cup ErrorInfos :
        /\ fpc = "new"
        /\ Constructed("NewPermissionDenied", PermissionDenied, errMsg, errorInfo, <<>>,
                       NewPermissionDenied(errMsg, errorInfo))

CallNewAborted ==
    \E errMsg \in ErrMsgs, errorInfo \in {NilPtr} \cup ErrorInfos :
        /\ fpc = "new"
        /\ Constructed("NewAborted", Aborted, errMsg, errorInfo, <<>>,
                       NewAborted(errMsg, errorInfo))

CallNewNotFound ==
    \E errMsg \in ErrMsgs, resourceInfo \in {NilPtr} \cup ResourceInfos :
        /\ fpc = "new"
        /\ Constructed("NewNotFound", NotFound, errMsg, resourceInfo, <<>>,
                       NewNotFound(errMsg, resourceInfo))

CallNewAlreadyExists ==
    \E errMsg \in ErrMsgs, resourceInfo \in {NilPtr} \cup ResourceInfos :
        /\ fpc = "new"
        /\ Constructed("NewAlreadyExists", AlreadyExists, errMsg, resourceInfo, <<>>,
                       NewAlreadyExists(errMsg, resourceInfo))

CallNewResourceExhausted ==
    \E errMsg \in ErrMsgs, violations \in QuotaViolationLists :
        /\ fpc = "new"
        /\ Constructed("NewResourceExhausted", ResourceExhausted, errMsg, NilPtr, violations,
                       NewResourceExhausted(errMsg, violations))

CallNewCancelled ==
    \E errMsg \in ErrMsgs :
        /\ fpc = "new"
        /\ Constructed("NewCancelled", Canceled, errMsg, NilPtr, <<>>, NewCancelled(errMsg))

CallNewDataLoss ==
    \E errMsg \in ErrMsgs, debugInfo \in {NilPtr} \cup DebugInfos :
        /\ fpc = "new"
        /\ Constructed("NewDataLoss", DataLoss, errMsg, debugInfo, <<>>,
                       NewDataLoss(errMsg, debugInfo))

CallNewUnknown ==
    \E errMsg \in ErrMsgs, debugInfo \in {NilPtr} \cup DebugInfos :
        /\ fpc = "new"
        /\ Constructed("NewUnknown", Unknown, errMsg, debugInfo, <<>>,
                       NewUnknown(errMsg, debugInfo))

CallNewInternal ==
    \E errMsg \in ErrMsgs, debugInfo \in {NilPtr} \cup DebugInfos :
        /\ fpc = "new"
        /\ Constructed("NewInternal", Internal, errMsg, debugInfo, <<>>,
                       NewInternal(errMsg, debugInfo))

CallNewUnimplemented ==
    \E errMsg \in ErrMsgs :
        /\ fpc = "new"
        /\ Constructed("NewUnimplemented", Unimplemented, errMsg, NilPtr, <<>>,
                       NewUnimplemented(errMsg))

CallNewUnavailable ==
    \E errMsg \in ErrMsgs, debugInfo \in {NilPtr} \cup DebugInfos :
        /\ fpc = "new"
        /\ Constructed("NewUnavailable", Unavailable, errMsg, debugInfo, <<>>,
                       NewUnavailable(errMsg, debugInfo))

CallNewDeadlineExceeded ==
    \E errMsg \in ErrMsgs, debugInfo \in {NilPtr} \cup DebugInfos :
        /\ fpc = "new"
        /\ Constructed("NewDeadlineExceeded", DeadlineExceeded, errMsg, debugInfo, <<>>,
                       NewDeadlineExceeded(errMsg, debugInfo))

\* the errdetails message a helper builds from its payload argument
helperDetail(op, ptr, list) ==
    CASE op = "AddDebugInfo" -> errdetailsDebugInfo(ptr)
      [] op = "AddRequestInfo" -> errdetailsRequestInfo(ptr)
      [] op = "AddHelp" -> errdetailsHelp(list)
      [] op = "AddLocalizedMessage" -> errdetailsLocalizedMessage(ptr)

\* a WithDetails that appends to the detail slice of its receiver
receiverAfterWithDetailsInPlace(st, d) ==
    IF WithDetails(st, d).err = RetNil THEN WithDetails(st, d).st ELSE st

\* the receiver of st.WithDetails(d) once the call returned: WithDetails
\* appends to s.Proto(), a copy of the receiver's message
receiverAfterWithDetails(st, d) == st

\* the error value a helper was given, once the helper returned: no helper
\* assigns through gRPCErr; the one call made on the status taken out of it
\* is WithDetails, and only when the payload is present and ok is true
targetAfter(e, op, ptr, list, unwraps) ==
    IF ptr = NilPtr /\ list = <<>> THEN e
    ELSE IF e.tag = "status" /\ statusFromError(e, unwraps).ok
         THEN StatusErr(receiverAfterWithDetails(e.st, helperDetail(op, ptr, list)))
         ELSE e

\* the caller calls a helper on the error it holds and keeps the result
\* when the helper returned no failure
Attached(op, ptr, list, r) ==
    /\ nAdds' = nAdds + 1
    /\ last' = [op |-> op, in |-> cur, after |-> targetAfter(cur, op, ptr, list, grpcUnwraps),
                ptr |-> ptr, list |-> list, out |-> r.err, fail |-> r.fail]
    /\ cur' = IF r.fail = RetNil THEN r.err ELSE cur
    /\ UNCHANGED <<encVars, grpcUnwraps, fpc, ctor, fail, got>>

CallAddDebugInfo ==
    \E debugInfo \in {NilPtr, DummyDebugInfo, OtherDebugInfo, BadDebugInfo} :
        /\ fpc = "held"
        /\ nAdds < MaxAdds
        /\ Attached("AddDebugInfo", debugInfo, <<>>, AddDebugInfo(cur, debugInfo, grpcUnwraps))

CallAddRequestInfo ==
    \E requestInfo \in {NilPtr, DummyRequestInfo} :
        /\ fpc = "held"
        /\ nAdds < MaxAdds
        /\ Attached("AddRequestInfo", requestInfo, <<>>,
                    AddRequestInfo(cur, requestInfo, grpcUnwraps))

CallAddHelp ==
    \E links \in {<<>>, <<DummyHelpLink, OtherHelpLink>>} :
        /\ fpc = "held"
        /\ nAdds < MaxAdds
        /\ Attached("AddHelp", NilPtr, links, AddHelp(cur, links, grpcUnwraps))

CallAddLocalizedMessage ==
    \E localizedMsg \in {NilPtr, ZeroLocalizedMessage} :
        /\ fpc = "held"
        /\ nAdds < MaxAdds
        /\ Attached("AddLocalizedMessage", localizedMsg, <<>>,
                    AddLocalizedMessage(cur, localizedMsg, grpcUnwraps))

\* fmt.Errorf("dummy-wrapping-error: %w", err) on the way up the call stack
Wrap ==
    /\ fpc \in {"held", "wrapped"}
    /\ cur # NilErr
    /\ Depth(cur) < MaxWrap
    /\ fpc' = "wrapped"
    /\ cur' = WrapErr(cur)
    /\ UNCHANGED <<encVars, grpcUnwraps, ctor, fail, last, nAdds, got>>

\* the caller reads the error with Code, Message and every accessor, and
\* renders the status of a canonical error to JSON
ReadAll ==
    /\ fpc \in {"held", "wrapped"}
    /\ fpc' = "read"
    /\ got' = [read |-> TRUE,
               Code |-> Code(cur, grpcUnwraps),
               Message |-> Message(cur, grpcUnwraps),
               DebugInfo |-> DebugInfoFrom(cur, grpcUnwraps),
               RequestInfo |-> RequestInfoFrom(cur, grpcUnwraps),
               HelpLinks |-> HelpLinksFrom(cur, grpcUnwraps),
               LocalizedMessage |-> LocalizedMessageFrom(cur, grpcUnwraps),
               FieldViolations |-> FieldViolationsFrom(cur, grpcUnwraps),
               PreconditionFailures |-> PreconditionFailuresFrom(cur, grpcUnwraps),
               ErrorInfo |-> ErrorInfoFrom(cur, grpcUnwraps),
               ResourceInfo |-> ResourceInfoFrom(cur, grpcUnwraps),
               QuotaViolations |-> QuotaViolationsFrom(cur, grpcUnwraps),
               json |-> IF cur.tag = "status" THEN jsonBytesFromGrpcStatus(cur.st)
                        ELSE [ok |-> FALSE, data |-> NilBytes]]
    /\ UNCHANGED <<encVars, grpcUnwraps, ctor, cur, fail, last, nAdds>>

\* the encoder's variables while no encoder runs
EncoderIdle ==
    /\ gRPCErr = [c \in Calls |-> NilErr]
    /\ opts = [c \in Calls |-> <<>>]
    /\ sinkOf = [c \in Calls |-> c]
    /\ pc = [c \in Calls |-> "idle"]
    /\ idx = [c \in Calls |-> 0]
    /\ json = [c \in Calls |-> NilBytes]
    /\ ret = [c \in Calls |-> RetPending]
    /\ w = [s \in Sinks |-> FreshSink]

\* errors a caller can hold that no constructor call of this run made
HeldErrors ==
    {NilErr, PlainErr, WrapErr(PlainErr), WrapErr(StatusErr(statusNew(Unimplemented, "dummy-msg")))}

InitErr ==
    /\ EncoderIdle
    /\ grpcUnwraps \in BOOLEAN
    /\ \/ fpc = "new" /\ cur = NilErr
       \/ fpc = "held" /\ cur \in HeldErrors
    /\ ctor = NoCtor
    /\ fail = RetNil
    /\ last = NoAdd
    /\ nAdds = 0
    /\ got = NoRead

NextErr ==
    \/ CallNewInvalidArgument
    \/ CallNewOutOfRange
    \/ CallNewFailedPrecondition
    \/ CallNewUnauthenticated
    \/ CallNewPermissionDenied
    \/ CallNewAborted
    \/ CallNewNotFound
    \/ CallNewAlreadyExists
    \/ CallNewResourceExhausted
    \/ CallNewCancelled
    \/ CallNewDataLoss
    \/ CallNewUnknown
    \/ CallNewInternal
    \/ CallNewUnimplemented
    \/ CallNewUnavailable
    \/ CallNewDeadlineExceeded
    \/ CallAddDebugInfo
    \/ CallAddRequestInfo
    \/ CallAddHelp
    \/ CallAddLocalizedMessage
    \/ Wrap
    \/ ReadAll

SpecErr == InitErr /\ [][NextErr]_vars

(***************************************************************************)
(* Properties.                                                             *)
(***************************************************************************)
\* the calls the encoder itself (not a callback) made on the sink of call c
EncoderCalls(c) == SelectSeq(w[sinkOf[c]].calls, LAMBDA x : x.by = 0)
EncoderStatusWrites(c) == SelectSeq(w[sinkOf[c]].calls, LAMBDA x : x.by = 0 /\ x.op = "WriteHeader")
EncoderBodyWrites(c) == SelectSeq(w[sinkOf[c]].calls, LAMBDA x : x.by = 0 /\ x.op = "Write")

\* call c went through f.w.WriteHeader(httpStatusCodeFrom(st))
MapperApplied(c) == pc[c] = "body" \/ (pc[c] = "done" /\ ret[c] = RetNil)

\* the status table of the specification, by numeric kind 1..16
HTTPTable ==
    <<499, 500, 400, 504, 404, 409, 403, 429, 400, 409, 400, 501, 500, 503, 500, 401>>

\* C1: for every kind of the taxonomy the status the encoder writes is the
\* table value of that kind, whatever the message and the details are.
C1_MapperTable ==
    \A c \in Calls :
        (MapperApplied(c) /\ rootStatus(c).code \in TableCodes) =>
            /\ Len(EncoderStatusWrites(c)) = 1
            /\ EncoderStatusWrites(c)[1].code = HTTPTable[rootStatus(c).code]

C1_Witness ==
    /\ pc[1] = "done" /\ ret[1] = RetNil
    /\ rootStatus(1).code = Canceled
    /\ rootStatus(1).details # <<>>
    /\ EncoderStatusWrites(1)[1].code = 499

\* C2: for every numeric kind outside the table (0, 9999, ...) the mapper
\* returns 500.
C2_MapperFallback ==
    \A c \in Calls :
        (MapperApplied(c) /\ rootStatus(c).code \notin TableCodes) =>
            /\ Len(EncoderStatusWrites(c)) = 1
            /\ EncoderStatusWrites(c)[1].code = 500

C2_Witness ==
    /\ pc[1] = "done" /\ ret[1] = RetNil
    /\ rootStatus(1).code = IllegalCode
    /\ EncoderStatusWrites(1)[1].code = 500

\* the status the specification's table gives a numeric kind
TableStatus(code) == IF code \in TableCodes THEN HTTPTable[code] ELSE 500

\* the body is exactly the canonical JSON of st: its code, message and details
IsCanonicalJSONOf(body, st) ==
    /\ Len(body) = 1
    /\ body[1].kind = "json"
    /\ body[1].code = st.code
    /\ body[1].message = st.message
    /\ body[1].details = st.details

\* the response of a canonical error encoded without callbacks
DefaultResponse(c) ==
    /\ ResultStatusCode(w[sinkOf[c]]) = TableStatus(gRPCErr[c].st.code)
    /\ ResultContentType(w[sinkOf[c]]) = "application/json"
    /\ IsCanonicalJSONOf(ResultBody(w[sinkOf[c]]), gRPCErr[c].st)
    /\ ret[c] = RetNil

\* C3 as stated: encoding any canonical error with no callbacks writes the
\* mapped status, Content-Type application/json and the canonical JSON body,
\* and AsJSON returns no failure.
C3_AsStated ==
    \A c \in Calls :
        (pc[c] = "done" /\ gRPCErr[c].tag = "status" /\ opts[c] = <<>>) => DefaultResponse(c)

\* C3 (amended): encoding a canonical error whose message is valid UTF-8, with
\* no callbacks, writes the mapped status, Content-Type application/json and
\* the canonical JSON body (code, message, details), and AsJSON returns no
\* failure.
C3_DefaultResponse ==
    \A c \in Calls :
        (/\ pc[c] = "done" /\ gRPCErr[c].tag = "status" /\ opts[c] = <<>>
         /\ utf8Valid(gRPCErr[c].st.message)) => DefaultResponse(c)

C3_Witness ==
    /\ pc[1] = "done" /\ opts[1] = <<>>
    /\ gRPCErr[1] = StatusErr([code |-> Unauthenticated, message |-> "dummy-msg",
                               details |-> <<DebugInfoDetail, RequestInfoDetail>>])
    /\ ResultStatusCode(w[1]) = 401
    /\ ResultBody(w[1])[1].details = <<DebugInfoDetail, RequestInfoDetail>>

\* call c returned from AsJSON without failure
Succeeded(c) == pc[c] = "done" /\ ret[c] = RetNil

\* C4: in a successful encode the calls on the sink are, in this order: the
\* encoder's Content-Type, the callbacks one by one in the order supplied,
\* the encoder's status write with the mapped status, the encoder's body
\* write; and when no callback writes body bytes, no header or status call
\* follows a body write.
C4_CallOrder ==
    \A c \in Calls :
        Succeeded(c) =>
            LET cs == w[sinkOf[c]].calls
                n == Len(opts[c])
            IN /\ Len(cs) = n + 3
               /\ cs[1] = Call(0, "Header.Set", 0)
               /\ \A k \in 1..n : cs[k + 1].by = k /\ cs[k + 1].op = opts[c][k].op
               /\ cs[n + 2] = Call(0, "WriteHeader", TableStatus(rootStatus(c).code))
               /\ cs[n + 3] = Call(0, "Write", 0)
               /\ (\A k \in 1..n : opts[c][k].op # "Write") =>
                      \A a, b \in 1..Len(cs) : (a < b /\ cs[a].op = "Write") => cs[b].op = "Write"

C4_Witness ==
    /\ Succeeded(1)
    /\ opts[1] = <<OptWriteHeader(StatusOK), OptSetContentType>>
    /\ Len(w[1].calls) = 5

\* the index of the first callback satisfying P, Len + 1 when there is none
FirstOpt(os, P(_)) ==
    IF \E k \in 1..Len(os) : P(os[k])
    THEN CHOOSE k \in 1..Len(os) : P(os[k]) /\ \A j \in 1..(k - 1) : ~P(os[j])
    ELSE Len(os) + 1

WritesStatus(opt) == opt.op = "WriteHeader"
WritesStatusOrBody(opt) == opt.op \in {"WriteHeader", "Write"}

\* C5 as stated: the status sent is that of the earliest callback that writes
\* a status, and the kind-derived status when no callback writes a status.
C5_AsStated ==
    \A c \in Calls :
        Succeeded(c) =>
            LET k == FirstOpt(opts[c], WritesStatus)
            IN ResultStatusCode(w[sinkOf[c]]) =
                  IF k <= Len(opts[c]) THEN opts[c][k].code
                  ELSE TableStatus(rootStatus(c).code)

\* C5 (amended): the status sent for a successful encode is decided by the
\* earliest callback that writes a status or body bytes: its own status when it
\* writes a status, 200 when it writes body bytes; the encoder's kind-derived
\* status is sent only when no callback writes a status or body bytes.
C5_FirstStatusWins ==
    \A c \in Calls :
        Succeeded(c) =>
            LET k == FirstOpt(opts[c], WritesStatusOrBody)
            IN ResultStatusCode(w[sinkOf[c]]) =
                  IF k > Len(opts[c]) THEN TableStatus(rootStatus(c).code)
                  ELSE IF opts[c][k].op = "WriteHeader" THEN opts[c][k].code
                  ELSE 200

C5_Witness ==
    /\ Succeeded(1)
    /\ rootStatus(1).code = Unauthenticated
    /\ opts[1] = <<OptWriteHeader(StatusOK), OptWriteHeader(202)>>
    /\ ResultStatusCode(w[1]) = 200

\* the Content-Type of the response when the status line goes out at callback k
\* (k = Len + 1: at the encoder's own status write)
ContentTypeAt(os, k) ==
    IF \E j \in 1..(k - 1) : os[j].op = "Header.Set"
    THEN "dummy-content-type-value"
    ELSE "application/json"

\* C6 as stated: the Content-Type sent is application/json unless a callback
\* that runs before any status write replaced it; a change made after a
\* callback wrote the status is not part of the response.
C6_AsStated ==
    \A c \in Calls :
        Succeeded(c) =>
            ResultContentType(w[sinkOf[c]]) =
                ContentTypeAt(opts[c], FirstOpt(opts[c], WritesStatus))

C7_NilInput ==
    \A c \in Calls :
        (pc[c] = "done" /\ gRPCErr[c] = NilErr) =>
            /\ ResultStatusCode(w[sinkOf[c]]) = 500
            /\ ResultBody(w[sinkOf[c]]) = <<>>
            /\ ret[c] \notin {RetNil, RetPending}

C7_Witness ==
    /\ pc[1] = "done" /\ gRPCErr[1] = NilErr
    /\ opts[1] # <<>>
    /\ ret[1] = RetErrNil

\* C8: encoding a non-nil error whose root has no canonical status writes
\* status 500 and an empty body, sets no Content-Type, and returns a failure.
C8_PlainRoot ==
    \A c \in Calls :
        (/\ pc[c] = "done" /\ gRPCErr[c] # NilErr
         /\ rootError(gRPCErr[c]) = PlainErr) =>
            /\ ResultStatusCode(w[sinkOf[c]]) = 500
            /\ ResultBody(w[sinkOf[c]]) = <<>>
            /\ ResultContentType(w[sinkOf[c]]) = ""
            /\ \A k \in 1..Len(w[sinkOf[c]].calls) : w[sinkOf[c]].calls[k].op # "Header.Set"
            /\ ret[c] \notin {RetNil, RetPending}

C8_Witness ==
    /\ pc[1] = "done" /\ gRPCErr[1] = WrapErr(PlainErr)
    /\ ret[1] = RetErrRoot
    /\ ResultStatusCode(w[1]) = 500

\* AsJSON of call c is over: it returned, or it panicked
Terminal(c) == pc[c] \in {"done", "panicked"}

\* the two sinks carry the same response
SameResponse(s, t) ==
    /\ ResultStatusCode(w[s]) = ResultStatusCode(w[t])
    /\ ResultContentType(w[s]) = ResultContentType(w[t])
    /\ ResultBody(w[s]) = ResultBody(w[t])

\* call 1 encodes call 2's canonical error wrapped at least once
WrappedCanonical ==
    /\ gRPCErr[2].tag = "status"
    /\ Depth(gRPCErr[1]) >= 1
    /\ gRPCErr[1] = Wrapped(gRPCErr[2], Depth(gRPCErr[1]))

\* C9 as stated: encoding a canonical error wrapped n >= 1 times gives the
\* same status, Content-Type and body as encoding it directly, and returns no
\* failure.
C9_AsStated ==
    (pc[1] = "done" /\ pc[2] = "done" /\ WrappedCanonical) =>
        SameResponse(1, 2) /\ ret[1] = RetNil

\* C9 (amended): encoding a canonical error wrapped n >= 1 times gives the
\* same status, Content-Type and body as encoding it directly and ends as the
\* direct encode ends; it returns no failure when the error's message is valid
\* UTF-8, and the serialization failure otherwise.
C9_WrapTransparency ==
    (Terminal(1) /\ Terminal(2) /\ WrappedCanonical) =>
        /\ SameResponse(1, 2)
        /\ pc[1] = pc[2]
        /\ ret[1] = ret[2]
        /\ pc[1] = "done" =>
              ret[1] = IF utf8Valid(gRPCErr[2].st.message) THEN RetNil ELSE RetErrJSON

C9_Witness ==
    /\ Terminal(1) /\ Terminal(2) /\ WrappedCanonical
    /\ Depth(gRPCErr[1]) = 2
    /\ gRPCErr[2].st.code = Unimplemented
    /\ ret[1] = RetNil
    /\ ResultStatusCode(w[1]) = 501
    /\ Len(ResultBody(w[1])) = 1

\* C10 as stated: every encode call ends on one of the paths nil input,
\* non-canonical root, serialization failure or success, and on it the encoder
\* itself has made exactly one status write and then exactly one body write, so
\* the sink has a response.
C10_AsStated ==
    \A c \in Calls :
        /\ pc[c] # "panicked"
        /\ pc[c] = "done" =>
              /\ ret[c] \in {RetErrNil, RetErrRoot, RetErrJSON, RetNil}
              /\ Len(EncoderStatusWrites(c)) = 1
              /\ Len(EncoderBodyWrites(c)) = 1
              /\ LET cs == EncoderCalls(c)
                 IN \E a, b \in 1..Len(cs) : a < b /\ cs[a].op = "WriteHeader" /\ cs[b].op = "Write"
              /\ w[sinkOf[c]].wroteHeader

(***************************************************************************)
(* Properties of the error factory (SpecErr).                              *)
(***************************************************************************)
\* the caller read the error right as the constructor returned it
ReadAsConstructed ==
    /\ fpc = "read"
    /\ ctor # NoCtor
    /\ fail = RetNil
    /\ nAdds = 0
    /\ Depth(cur) = 0

\* the default-message table of the specification (section 4.1), by kind
SpecDefaultMessage(code) ==
    CASE code = InvalidArgument ->
            "Client specified an invalid argument. Check error details for more information."
      [] code = OutOfRange -> "Client specified an invalid range."
      [] code = FailedPrecondition ->
            "Request can not be executed in the current system state, such as deleting a non-empty directory."
      [] code = Unauthenticated ->
            "Request not authenticated due to missing, invalid, or expired security credentials."
      [] code = PermissionDenied ->
            "Client does not have sufficient permission. This can happen because the client doesn't have permission, or the API has not been enabled."
      [] code = Aborted -> "Concurrency conflict, such as read-modify-write conflict."
      [] code = NotFound -> "A specified resource is not found."
      [] code = AlreadyExists -> "Resource a client tried to create already exists."
      [] code = ResourceExhausted ->
            "Either out of resource quota or reaching rate limiting. The client should look for google.rpc.QuotaFailure error detail for more information."
      [] code = Canceled -> "Request cancelled by the client."
      [] code = DataLoss ->
            "Unrecoverable data loss or data corruption. The client should report the error to the user."
      [] code = Unknown -> "Unknown server error. Typically a server bug."
      [] code = Internal -> "Internal server error. Typically a server bug."
      [] code = Unimplemented -> "API method not implemented by the server."
      [] code = Unavailable -> "Service unavailable. Typically the server is down."
      [] code = DeadlineExceeded ->
            "Request deadline exceeded. This will happen only if the caller sets a deadline shorter than the method's default deadline and the request did not finish in time."

\* C11: every constructor called with an empty message (and any detail
\* argument it accepts) yields an error whose message is the entry of its
\* kind in the default-message table of the specification.
C11_AsStated ==
    (ReadAsConstructed /\ ctor.errMsg = "") => got.Message = SpecDefaultMessage(ctor.code)

\* the same for NewDataLoss alone
C11_DataLossDefault ==
    (ReadAsConstructed /\ ctor.errMsg = "" /\ ctor.name = "NewDataLoss")
        => got.Message = SpecDefaultMessage(DataLoss)

\* the same for the 14 constructors other than NewDataLoss and NewDeadlineExceeded
C11_OtherDefaults ==
    (ReadAsConstructed /\ ctor.errMsg = "" /\ ctor.code \notin {DataLoss, DeadlineExceeded})
        => got.Message = SpecDefaultMessage(ctor.code)

\* C12: a constructor NewK called with a non-empty message m (and any detail
\* argument for which it returns an error value) yields an error with
\* Code = K and Message = m.
C12_GivenMessage ==
    (ReadAsConstructed /\ ctor.errMsg # "")
        => (got.Code = ctor.code /\ got.Message = ctor.errMsg)

C12_Witness ==
    /\ ReadAsConstructed
    /\ ctor.name = "NewNotFound"
    /\ ctor.errMsg = "dummy-msg"
    /\ ctor.ptr = DummyResourceInfo
    /\ got.Code = NotFound
    /\ got.Message = "dummy-msg"

\* the caller holds an error a constructor returned, as attached to so far
HoldsConstructed == fpc = "held" /\ ctor # NoCtor /\ fail = RetNil

C13_Kept ==
    HoldsConstructed =>
        /\ cur.tag = "status"
        /\ ctor.code \in TableCodes
        /\ cur.st.code = ctor.code
        /\ cur.st.message # ""
        /\ (ctor.errMsg # "" => cur.st.message = ctor.errMsg)

C13_Step ==
    (HoldsConstructed /\ fpc' = "held")
        => (cur'.st.code = cur.st.code /\ cur'.st.message = cur.st.message)

\* C13: every error reached by one constructor call followed by any sequence
\* of detail-attachment calls (the failed ones leave the caller with the
\* error it had) has the constructor's kind, one of the 16, and a non-empty
\* message, the one the constructor gave it: no attachment changes either.
C13_KindAndMessage == []C13_Kept /\ [][C13_Step]_vars

C13_Witness ==
    /\ HoldsConstructed
    /\ ctor.name = "NewInternal"
    /\ ctor.errMsg = ""
    /\ nAdds = 2
    /\ Len(cur.st.details) = 3
    /\ cur.st.code = Internal
    /\ cur.st.message = defaultInternalErrMsg

\* the constructors that take a detail argument, and whether it was absent
DetailBearing == ctor.name \notin {"none", "NewCancelled", "NewUnimplemented"}
DetailAbsent == ctor.ptr = NilPtr /\ ctor.list = <<>>

\* C14: a detail-bearing constructor (when it returns an error value)
\* attaches no detail for a nil pointer or an empty list, and the JSON of
\* the status then has no details key; for any other argument, zero-valued
\* ones included, it attaches exactly one detail.
C14_DetailIffPresent ==
    (ReadAsConstructed /\ DetailBearing) =>
        /\ got.json.ok
        /\ DetailAbsent =>
              (cur.st.details = <<>> /\ "details" \notin got.json.data.keys)
        /\ ~DetailAbsent =>
              (Len(cur.st.details) = 1 /\ "details" \in got.json.data.keys)

C14_Witness ==
    /\ ReadAsConstructed
    /\ ctor.name = "NewUnauthenticated"
    /\ ctor.ptr = ZeroErrorInfo
    /\ cur.st.details = <<errdetailsErrorInfo(ZeroErrorInfo)>>
    /\ "details" \in got.json.data.keys

C14_WitnessAbsent ==
    /\ ReadAsConstructed
    /\ ctor.name = "NewInternal"
    /\ ctor.ptr = NilPtr
    /\ cur.st.details = <<>>
    /\ got.json.data.keys = {"code", "message"}

\* what the nine accessors return when there is no payload of their type
ZeroPayloads ==
    [DebugInfo |-> ZeroDebugInfo, RequestInfo |-> ZeroRequestInfo, HelpLinks |-> <<>>,
     LocalizedMessage |-> ZeroLocalizedMessage, FieldViolations |-> <<>>,
     PreconditionFailures |-> <<>>, ErrorInfo |-> ZeroErrorInfo,
     ResourceInfo |-> ZeroResourceInfo, QuotaViolations |-> <<>>]

\* what the nine accessors returned
GotPayloads == [f \in DOMAIN ZeroPayloads |-> got[f]]

\* the accessor of the detail type a constructor takes
AccessorOf(name) ==
    CASE name \in {"NewInvalidArgument", "NewOutOfRange"} -> "FieldViolations"
      [] name = "NewFailedPrecondition" -> "PreconditionFailures"
      [] name \in {"NewUnauthenticated", "NewPermissionDenied", "NewAborted"} -> "ErrorInfo"
      [] name \in {"NewNotFound", "NewAlreadyExists"} -> "ResourceInfo"
      [] name = "NewResourceExhausted" -> "QuotaViolations"
      [] name \in {"NewDataLoss", "NewUnknown", "NewInternal", "NewUnavailable",
                   "NewDeadlineExceeded"} -> "DebugInfo"

ListAccessors == {"HelpLinks", "FieldViolations", "PreconditionFailures", "QuotaViolations"}

\* the detail argument the constructor was called with
CtorPayload == IF AccessorOf(ctor.name) \in ListAccessors THEN ctor.list ELSE ctor.ptr

PayloadsOf(e) ==
    [DebugInfo |-> DebugInfoFrom(e, grpcUnwraps),
     RequestInfo |-> RequestInfoFrom(e, grpcUnwraps),
     HelpLinks |-> HelpLinksFrom(e, grpcUnwraps),
     LocalizedMessage |-> LocalizedMessageFrom(e, grpcUnwraps),
     FieldViolations |-> FieldViolationsFrom(e, grpcUnwraps),
     PreconditionFailures |-> PreconditionFailuresFrom(e, grpcUnwraps),
     ErrorInfo |-> ErrorInfoFrom(e, grpcUnwraps),
     ResourceInfo |-> ResourceInfoFrom(e, grpcUnwraps),
     QuotaViolations |-> QuotaViolationsFrom(e, grpcUnwraps)]

\* an error whose chain holds no status: a plain error, wrapped or not
IsPlain(e) == e # NilErr /\ rootError(e).tag = "plain"

\* C16: Code, Message and the nine accessors can be applied to every error
\* a caller can hold (nil, plain, canonical, wrapped) and return a value;
\* for a plain error the accessors return their zero values and Code
\* returns Unknown (for nil: zero values, code OK and an empty message).
C16_Total ==
    /\ fpc \in {"held", "wrapped"} =>
          /\ Code(cur, grpcUnwraps) \in {0} \cup TableCodes
          /\ Message(cur, grpcUnwraps) \in STRING
          /\ DOMAIN PayloadsOf(cur) = DOMAIN ZeroPayloads
    /\ fpc = "read" =>
          /\ got.read
          /\ got.Code \in {0} \cup TableCodes
          /\ IsPlain(cur) => (GotPayloads = ZeroPayloads /\ got.Code = Unknown)
          /\ cur = NilErr => (GotPayloads = ZeroPayloads /\ got.Code = 0 /\ got.Message = "")

C16_Witness ==
    /\ fpc = "read"
    /\ cur = WrapErr(PlainErr)
    /\ got.Code = Unknown
    /\ got.Message = "dummy-wrapping-error: dummy-error"
    /\ GotPayloads = ZeroPayloads

\* the caller read a canonical error wrapped at least once
ReadWrappedCanonical == fpc = "read" /\ Depth(cur) >= 1 /\ rootError(cur).tag = "status"

\* C17: for a canonical error e wrapped n >= 1 times, every accessor returns
\* what it returns for e itself (so the payload d that e carries, not the
\* zero value), and Code returns e's kind.
C17_AsStated ==
    ReadWrappedCanonical =>
        /\ got.Code = rootError(cur).st.code
        /\ GotPayloads = PayloadsOf(rootError(cur))

\* the same, in the builds whose status.FromError follows the Unwrap chain
C17_WhenFromErrorUnwraps == grpcUnwraps => C17_AsStated

\* in the other builds a wrapped canonical error reads as an Unknown error
\* without details
C17_WhenFromErrorDoesNotUnwrap ==
    (ReadWrappedCanonical /\ ~grpcUnwraps) =>
        (got.Code = Unknown /\ GotPayloads = ZeroPayloads)

\* the last helper call: its target had no status (nil, or a plain error,
\* wrapped or not), and its payload was absent
Attaching == last.op # "none"
TargetWithoutStatus == Attaching /\ (last.in = NilErr \/ IsPlain(last.in))
PayloadAbsent == last.ptr = NilPtr /\ last.list = <<>>

\* C18 as stated: a helper called on a nil or plain target returns a
\* failure and a nil error value for every payload argument.
C18_AsStated == TargetWithoutStatus => (last.fail # RetNil /\ last.out = NilErr)

\* C18: a helper called on a nil or plain target with a present payload
\* returns a failure and a nil error value; with an absent payload it
\* returns the target as it is and no failure.  The call returns in every
\* state.
C18_InvalidTarget ==
    /\ (fpc = "held" /\ nAdds < MaxAdds) =>
          /\ ENABLED CallAddDebugInfo
          /\ ENABLED CallAddRequestInfo
          /\ ENABLED CallAddHelp
          /\ ENABLED CallAddLocalizedMessage
    /\ (TargetWithoutStatus /\ ~PayloadAbsent) => (last.fail # RetNil /\ last.out = NilErr)
    /\ (TargetWithoutStatus /\ PayloadAbsent) => (last.fail = RetNil /\ last.out = last.in)

C18_Witness ==
    /\ last.op = "AddHelp"
    /\ last.in = PlainErr
    /\ last.list = <<DummyHelpLink, OtherHelpLink>>
    /\ last.fail = ErrNotStatus
    /\ last.out = NilErr

C18_WitnessNilTarget ==
    /\ last.op = "AddDebugInfo"
    /\ last.in = NilErr
    /\ last.ptr = DummyDebugInfo
    /\ last.fail = ErrCodeOK
    /\ last.out = NilErr

\* C19: a helper called with an absent payload (nil DebugInfo, RequestInfo
\* or LocalizedMessage, or no help links) returns the error it was given,
\* unchanged, and no failure, whatever that error is.
C19_AbsentPayload ==
    (Attaching /\ PayloadAbsent) =>
        (last.out = last.in /\ last.fail = RetNil)

C19_Witness ==
    /\ last.op = "AddDebugInfo"
    /\ PayloadAbsent
    /\ last.in.tag = "status"
    /\ last.in.st.details # <<>>
    /\ last.out = last.in

C19_WitnessWrapped ==
    /\ last.op = "AddHelp"
    /\ PayloadAbsent
    /\ last.in = WrapErr(PlainErr)
    /\ last.out = WrapErr(PlainErr)
    /\ last.fail = RetNil

\* the payload of the last helper call, the errdetails message that stands
\* for it, and the accessor of its type
HelperPayload == IF last.op = "AddHelp" THEN last.list ELSE last.ptr
HelperDetail ==
    CASE last.op = "AddDebugInfo" -> errdetailsDebugInfo(last.ptr)
      [] last.op = "AddRequestInfo" -> errdetailsRequestInfo(last.ptr)
      [] last.op = "AddHelp" -> errdetailsHelp(last.list)
      [] last.op = "AddLocalizedMessage" -> errdetailsLocalizedMessage(last.ptr)
HelperAccessor ==
    CASE last.op = "AddDebugInfo" -> "DebugInfo"
      [] last.op = "AddRequestInfo" -> "RequestInfo"
      [] last.op = "AddHelp" -> "HelpLinks"
      [] last.op = "AddLocalizedMessage" -> "LocalizedMessage"

\* a helper was called on a canonical error with a present payload
AttachingPresent == Attaching /\ last.in.tag = "status" /\ ~PayloadAbsent

\* the result of the last helper call carries the input's kind and message
\* and the input's details followed by the payload; and once read, the
\* accessor of the payload's type returns the payload if the input had none
AttachedLast ==
    /\ last.fail = RetNil
    /\ last.out.tag = "status"
    /\ last.out.st.code = last.in.st.code
    /\ last.out.st.message = last.in.st.message
    /\ last.out.st.details = Append(last.in.st.details, HelperDetail)
    /\ (/\ fpc = "read"
        /\ cur = last.out
        /\ firstDetailOf(last.in.st.details, HelperDetail.type) = 0)
          => got[HelperAccessor] = HelperPayload

\* C20 as stated: every helper call on a canonical error with a present
\* payload returns, without failure, the input with the payload appended.
C20_AsStated == AttachingPresent => AttachedLast

\* C20: so it is for every present payload whose strings are valid UTF-8;
\* for a payload with a string that is not, the helper returns a nil error
\* and a failure.
C20_Attached ==
    /\ (AttachingPresent /\ protoValid(HelperDetail)) => AttachedLast
    /\ (AttachingPresent /\ ~protoValid(HelperDetail)) =>
          (last.fail = ErrInvalidUTF8 /\ last.out = NilErr)

C20_Witness ==
    /\ fpc = "read"
    /\ last.op = "AddRequestInfo"
    /\ last.ptr = DummyRequestInfo
    /\ last.in.tag = "status"
    /\ last.in.st.details = <<errdetailsDebugInfo(DummyDebugInfo)>>
    /\ cur = last.out
    /\ Len(cur.st.details) = 2
    /\ got.RequestInfo = DummyRequestInfo
    /\ got.DebugInfo = DummyDebugInfo

C20_WitnessRejected ==
    /\ last.op = "AddDebugInfo"
    /\ last.ptr = BadDebugInfo
    /\ last.in.tag = "status"
    /\ last.fail = ErrInvalidUTF8

\* what Code, Message and the nine accessors return for error e
Readings(e) ==
    [Code |-> Code(e, grpcUnwraps), Message |-> Message(e, grpcUnwraps),
     Payloads |-> PayloadsOf(e)]

C21_WitnessFailed ==
    /\ last.op = "AddLocalizedMessage"
    /\ last.ptr = ZeroLocalizedMessage
    /\ last.in = PlainErr
    /\ last.fail = ErrNotStatus
    /\ last.after = PlainErr

\* the nine detail types
DetailTypes ==
    {"google.rpc.DebugInfo", "google.rpc.RequestInfo", "google.rpc.Help",
     "google.rpc.LocalizedMessage", "google.rpc.BadRequest", "google.rpc.PreconditionFailure",
     "google.rpc.ErrorInfo", "google.rpc.ResourceInfo", "google.rpc.QuotaFailure"}

\* the details of the status an error carries (at the root of its chain)
DetailsOf(e) ==
    IF e # NilErr /\ rootError(e).tag = "status" THEN rootError(e).st.details ELSE <<>>

\* how many details of a type there are
CountOfType(details, type) == Cardinality({i \in DOMAIN details : details[i].type = type})

\* the detail type a helper attaches
HelperType(op) ==
    CASE op = "AddDebugInfo" -> "google.rpc.DebugInfo"
      [] op = "AddRequestInfo" -> "google.rpc.RequestInfo"
      [] op = "AddHelp" -> "google.rpc.Help"
      [] op = "AddLocalizedMessage" -> "google.rpc.LocalizedMessage"
      [] OTHER -> "none"

\* C22 as stated: an error made by a constructor, after any helper calls,
\* holds at most one payload of each detail type.
C22_AsStated ==
    (ctor # NoCtor /\ fail = RetNil) =>
        \A t \in DetailTypes : CountOfType(DetailsOf(cur), t) <= 1

\* a constructor attaches at most one payload
C22_CtorAtMostOne ==
    (ctor # NoCtor /\ fail = RetNil /\ nAdds = 0) => Len(DetailsOf(cur)) <= 1

\* a helper call adds at most one payload, of the helper's type, to what
\* the error already holds
C22_AddAtMostOne ==
    (nAdds' = nAdds + 1) =>
        \A t \in DetailTypes :
            CountOfType(DetailsOf(cur'), t) <=
                CountOfType(DetailsOf(cur), t) + (IF t = HelperType(last'.op) THEN 1 ELSE 0)

\* C22: every constructor and every helper call attaches at most one
\* payload, so after a constructor and n helper calls an error holds at
\* most n + 1 payloads; nothing keeps a helper from attaching a type the
\* error already holds.
C22_OnePerCall ==
    /\ [](C22_CtorAtMostOne /\ Len(DetailsOf(cur)) <= nAdds + 1)
    /\ [][C22_AddAtMostOne]_vars

\* NewInternal(m, d1) followed by AddDebugInfo(e, d2): two DebugInfo payloads
C22_Witness ==
    /\ ctor.name = "NewInternal"
    /\ ctor.ptr = DummyDebugInfo
    /\ last.op = "AddDebugInfo"
    /\ last.ptr = OtherDebugInfo
    /\ nAdds = 1
    /\ cur = StatusErr([code |-> Internal, message |-> ctor.errMsg,
                        details |-> <<errdetailsDebugInfo(DummyDebugInfo),
                                      errdetailsDebugInfo(OtherDebugInfo)>>])
    /\ CountOfType(DetailsOf(cur), "google.rpc.DebugInfo") = 2

(***************************************************************************)
(* Properties of encoders used in sequence and side by side (SpecSeq,      *)
(* SpecConc).                                                              *)
(***************************************************************************)
\* the documented example: NewHttpResponseEncodeWriter(w, nil) and
\* NewUnimplemented(""), encoded on the fresh recorder
ExampleCall ==
    /\ opts[1] = <<OptNil>>
    /\ gRPCErr[1] = NewUnimplemented("").err
    /\ pc[1] \in {"done", "panicked"}
    /\ pc[2] = "waiting"

\* C23 as stated: the encoder of the example, whose callback list is one
\* nil callback, encodes the Unimplemented error made with an empty message
\* without panicking: AsJSON returns no failure and the sink has status 501
\* and the JSON body with the default Unimplemented message.
C23_AsStated ==
    ExampleCall =>
        /\ ret[1] = RetNil
        /\ ResultStatusCode(w[1]) = StatusNotImplemented
        /\ Len(ResultBody(w[1])) = 1
        /\ ResultBody(w[1])[1].kind = "json"
        /\ ResultBody(w[1])[1].code = Unimplemented
        /\ ResultBody(w[1])[1].message = defaultUnimplementedErrMsg

\* what the example's call does: it panics in the callback loop, after the
\* default Content-Type was set and before any status or body was written
C23_ExamplePanics ==
    ExampleCall =>
        /\ pc[1] = "panicked"
        /\ ret[1] = RetPanic
        /\ w[1] = HeaderSet(FreshSink, ContentTypeJSON, 0)

\* call c has returned (or panicked)
Ended(c) == pc[c] \in {"done", "panicked"}

\* call c left its sink as an encode of its own error, alone on a fresh
\* sink, leaves it, and returned the same
AsAlone(c) ==
    /\ w[sinkOf[c]] = AsJSONRun(gRPCErr[c], opts[c], FreshSink).w
    /\ ret[c] = AsJSONRun(gRPCErr[c], opts[c], FreshSink).ret

\* a step that is not a step of call c leaves everything of call c as it is
C24_NoSharedState ==
    \A c \in Calls :
        (pc'[c] = pc[c] /\ idx'[c] = idx[c]) =>
            /\ w'[sinkOf[c]] = w[sinkOf[c]]
            /\ json'[c] = json[c]
            /\ ret'[c] = ret[c]
            /\ gRPCErr'[c] = gRPCErr[c]
            /\ opts'[c] = opts[c]

\* C24: two encode calls running concurrently on two distinct sinks with
\* two distinct errors, in any interleaving of their steps, leave each sink
\* with the status, headers and body (and the calls) that a sequential
\* encode of its own error produces; no step of one call changes anything
\* the other call reads or writes.
C24_Independent ==
    /\ [](\A c \in Calls : Ended(c) => AsAlone(c))
    /\ [][C24_NoSharedState]_vars

C24_Witness ==
    /\ \A c \in Calls : pc[c] = "done"
    /\ gRPCErr[1] = NewUnimplemented("").err
    /\ gRPCErr[2] = NewAborted("dummy-msg", DummyErrorInfo).err
    /\ opts[1] = <<OptSetContentType>>
    /\ opts[2] = <<>>
    /\ ResultStatusCode(w[1]) = StatusNotImplemented
    /\ ResultStatusCode(w[2]) = StatusConflict
    /\ ResultContentType(w[1]) = ContentTypeDummy
    /\ ResultContentType(w[2]) = ContentTypeJSON
    /\ ResultBody(w[1])[1].code = Unimplemented
    /\ ResultBody(w[2])[1].code = Aborted

\* both calls are inside AsJSON at once
C24_WitnessInterleaved ==
    /\ pc[1] = "opts"
    /\ idx[1] = 2
    /\ pc[2] = "body"
    /\ w[1].calls # <<>>
    /\ w[2].calls # <<>>

(***************************************************************************)
(* The encoder's failure paths and its callbacks, once more (Spec).        *)
(***************************************************************************)
\* the error of call c has a canonical status at its root, and rendering
\* that status to JSON fails
RenderingFails(c) ==
    /\ gRPCErr[c] # NilErr
    /\ hasGRPCStatus(rootError(gRPCErr[c]))
    /\ ~jsonBytesFromGrpcStatus(rootStatus(c)).ok

\* C25: when rendering the canonical status to JSON fails, the encoder
\* writes status 500 and an empty body and returns the failure that wraps
\* the serialization failure; it makes no other call on the sink (no
\* Content-Type, no callback, no second status, no JSON) and never enters
\* the later steps.
C25_SerializationFailure ==
    \A c \in Calls :
        RenderingFails(c) =>
            /\ pc[c] \in {"start", "done"}
            /\ pc[c] = "done" =>
                  /\ ret[c] = RetErrJSON
                  /\ ResultStatusCode(w[sinkOf[c]]) = StatusInternalServerError
                  /\ ResultBody(w[sinkOf[c]]) = <<>>
                  /\ w[sinkOf[c]].calls =
                        <<Call(0, "WriteHeader", StatusInternalServerError), Call(0, "Write", 0)>>

C25_Witness ==
    /\ pc[1] = "done"
    /\ gRPCErr[1] = WrapErr(StatusErr([code |-> NotFound, message |-> InvalidUTF8Msg,
                                       details |-> <<DebugInfoDetail>>]))
    /\ opts[1] = <<OptWriteHeader(StatusOK), OptWriteBody>>
    /\ ret[1] = RetErrJSON
    /\ ResultStatusCode(w[1]) = StatusInternalServerError
    /\ ResultBody(w[1]) = <<>>

\* call c returned a failure
Failed(c) == pc[c] = "done" /\ ret[c] \in {RetErrNil, RetErrRoot, RetErrJSON}

\* C26: on each failure path of the encoder (nil input, root without
\* canonical status, serialization failure) the default Content-Type is not
\* set and no callback is called: the only calls on the sink are the
\* encoder's status write of 500 and its empty body write, and the response
\* has status 500, an empty body and no Content-Type, whatever callbacks
\* were supplied.
C26_FailurePathsBare ==
    \A c \in Calls :
        /\ Failed(c) =>
              /\ \A k \in DOMAIN w[sinkOf[c]].calls :
                    /\ w[sinkOf[c]].calls[k].by = 0
                    /\ w[sinkOf[c]].calls[k].op # "Header.Set"
              /\ idx[c] = 0
              /\ ResultStatusCode(w[sinkOf[c]]) = StatusInternalServerError
              /\ ResultBody(w[sinkOf[c]]) = <<>>
              /\ ResultContentType(w[sinkOf[c]]) = ""
              /\ w[sinkOf[c]].header = ""
        /\ (pc[c] = "done" /\ ret[c] # RetNil) => Failed(c)
        /\ (pc[c] = "done" /\ (gRPCErr[c] = NilErr \/ ~hasGRPCStatus(rootError(gRPCErr[c]))
                               \/ RenderingFails(c))) => Failed(c)

C26_Witness ==
    /\ Failed(1)
    /\ ret[1] = RetErrJSON
    /\ opts[1] = <<OptSetContentType, OptWriteHeader(StatusOK)>>
    /\ ResultContentType(w[1]) = ""
    /\ ResultStatusCode(w[1]) = StatusInternalServerError

C26_WitnessNil ==
    /\ Failed(1)
    /\ ret[1] = RetErrNil
    /\ opts[1] = <<OptWriteBody, OptSetContentType>>
    /\ ResultContentType(w[1]) = ""
    /\ ResultBody(w[1]) = <<>>

C26_WitnessPlainRoot ==
    /\ Failed(1)
    /\ ret[1] = RetErrRoot
    /\ gRPCErr[1] = WrapErr(PlainErr)
    /\ opts[1] = <<OptSetContentType>>
    /\ ResultContentType(w[1]) = ""

(***************************************************************************)
(* More properties of the error factory (SpecErr).                         *)
(***************************************************************************)
\* C27: each accessor returns the first payload of its type in attachment
\* order, skipping payloads of other types: after a successful helper call
\* on a canonical error, the accessors return for the result what they
\* returned for the input, except that the accessor of the helper's type
\* returns the new payload when the input had no payload of that type; when
\* it had one (from the constructor or an earlier helper call), that
\* earlier payload is still what the accessor returns.
C27_FirstOfType ==
    (AttachingPresent /\ last.fail = RetNil) =>
        PayloadsOf(last.out) =
            IF firstDetailOf(last.in.st.details, HelperDetail.type) # 0
            THEN PayloadsOf(last.in)
            ELSE [PayloadsOf(last.in) EXCEPT ![HelperAccessor] = HelperPayload]

\* NewInternal(m, d1), AddRequestInfo(e, r), AddDebugInfo(e, d2), read: d1
C27_Witness ==
    /\ fpc = "read"
    /\ ctor.name = "NewInternal"
    /\ ctor.ptr = DummyDebugInfo
    /\ last.op = "AddDebugInfo"
    /\ last.ptr = OtherDebugInfo
    /\ last.fail = RetNil
    /\ cur = last.out
    /\ cur.st.details = <<errdetailsDebugInfo(DummyDebugInfo),
                          errdetailsRequestInfo(DummyRequestInfo),
                          errdetailsDebugInfo(OtherDebugInfo)>>
    /\ got.DebugInfo = DummyDebugInfo
    /\ got.RequestInfo = DummyRequestInfo

\* a payload of another type stands before the first one of the accessor's type
C27_WitnessSkips ==
    /\ fpc = "read"
    /\ ctor.name = "NewNotFound"
    /\ ctor.ptr = DummyResourceInfo
    /\ last.op = "AddDebugInfo"
    /\ last.ptr = OtherDebugInfo
    /\ cur = last.out
    /\ Len(cur.st.details) = 2
    /\ got.DebugInfo = OtherDebugInfo
    /\ got.ResourceInfo = DummyResourceInfo

\* the caller holds what the constructor returned
JustConstructed == fpc = "held" /\ ctor # NoCtor /\ nAdds = 0

\* what the constructor call returned agrees with the status the shared
\* helper newStatusWithDebugInfo builds for the kind, message and debugInfo
AgreesWithDebugInfoHelper ==
    [err |-> cur, fail |-> fail] = errFrom(newStatusWithDebugInfo(ctor.code, ctor.errMsg, ctor.ptr))

\* C28 as stated: for every message (the empty one included) and every
\* debugInfo (nil included), NewDataLoss(m, d) yields the error of the
\* status newStatusWithDebugInfo(codes.DataLoss, m, d) builds.
C28_AsStated ==
    (JustConstructed /\ ctor.name = "NewDataLoss") => AgreesWithDebugInfoHelper

\* so it is for a non-empty message
C28_GivenMessage ==
    (JustConstructed /\ ctor.name = "NewDataLoss" /\ ctor.errMsg # "")
        => AgreesWithDebugInfoHelper

\* and, for every message, for the four constructors built on the helper
C28_OtherFour ==
    (JustConstructed /\ ctor.name \in {"NewUnknown", "NewInternal", "NewUnavailable",
                                       "NewDeadlineExceeded"})
        => AgreesWithDebugInfoHelper

\* for the empty message NewDataLoss differs from the helper in the message only
C28_EmptyMessage ==
    (JustConstructed /\ ctor.name = "NewDataLoss" /\ ctor.errMsg = "" /\ fail = RetNil) =>
        LET h == errFrom(newStatusWithDebugInfo(DataLoss, "", ctor.ptr)).err
        IN  /\ cur.st.code = h.st.code
            /\ cur.st.details = h.st.details
            /\ cur.st.message = defaultCanceledErrMsg
            /\ h.st.message = defaultDataLossErrMsg

(***************************************************************************)
(* Two encodes in sequence on one sink (SpecSeq).                          *)
(***************************************************************************)
\* the sink as the first encode left it
AfterFirst == AsJSONRun(gRPCErr[1], opts[1], FreshSink).w

\* the body bytes the callbacks write in one run of the loop
CallbackBytes(os) ==
    [k \in 1..Cardinality({j \in DOMAIN os : os[j].op = "Write"}) |->
        RawBytes("dummy-callback-bytes")]

\* the status writes the sink was asked for
StatusWrites(s) == {k \in DOMAIN s.calls : s.calls[k].op = "WriteHeader"}

\* C29: after two sequential encodes made with the function returned by
\* NewHttpResponseEncodeWriter, on its one sink, the response has the status
\* (and the headers) the first encode sent: the status write of the second
\* encode changes nothing.  The second encode runs the callbacks again and
\* its body bytes (those of the callbacks, then its JSON) follow the body of
\* the first.
C29_SecondEncode ==
    (pc[1] = "done" /\ pc[2] = "done") =>
        /\ sinkOf[1] = sinkOf[2]
        /\ w[1] = AsJSONRun(gRPCErr[2], opts[2], AfterFirst).w
        /\ AfterFirst.wroteHeader
        /\ ResultStatusCode(w[1]) = ResultStatusCode(AfterFirst)
        /\ ResultContentType(w[1]) = ResultContentType(AfterFirst)
        /\ SubSeq(ResultBody(w[1]), 1, Len(ResultBody(AfterFirst))) = ResultBody(AfterFirst)
        /\ SubSeq(w[1].calls, 1, Len(AfterFirst.calls)) = AfterFirst.calls
        /\ Cardinality(StatusWrites(w[1])) > Cardinality(StatusWrites(AfterFirst))
        /\ Succeeded(2) =>
              LET n == Len(opts[2])
                  base == Len(AfterFirst.calls)
              IN  /\ Len(w[1].calls) = base + n + 3
                  /\ \A k \in 1..n :
                        /\ w[1].calls[base + 1 + k].by = k
                        /\ w[1].calls[base + 1 + k].op = opts[2][k].op
                  /\ w[1].calls[base + n + 2] =
                        Call(0, "WriteHeader", httpStatusCodeFrom(rootStatus(2)))
                  /\ ResultBody(w[1]) =
                        ResultBody(AfterFirst) \o CallbackBytes(opts[2]) \o <<json[2]>>

C29_Witness ==
    /\ pc[1] = "done" /\ pc[2] = "done"
    /\ gRPCErr[1] = NewUnimplemented("").err
    /\ gRPCErr[2] = NewAborted("dummy-msg", DummyErrorInfo).err
    /\ opts[1] = <<OptSetContentType>>
    /\ ret[1] = RetNil /\ ret[2] = RetNil
    /\ ResultStatusCode(w[1]) = StatusNotImplemented
    /\ Len(ResultBody(w[1])) = 2
    /\ ResultBody(w[1])[1].code = Unimplemented
    /\ ResultBody(w[1])[2].code = Aborted
    /\ Len(w[1].calls) = 8
    /\ w[1].calls[7] = Call(0, "WriteHeader", StatusConflict)

(***************************************************************************)
(* A callback that writes body bytes (Spec).                               *)
(***************************************************************************)
\* the index of the first callback that writes body bytes, 0 if none does
FirstBodyWriter(os) ==
    IF \E k \in DOMAIN os : os[k].op = "Write"
    THEN CHOOSE k \in DOMAIN os : os[k].op = "Write" /\ \A j \in 1..(k - 1) : os[j].op # "Write"
    ELSE 0

\* call c encodes a canonical error that renders to JSON, and its callbacks
\* are all non-nil and one of them writes body bytes
BodyWritingCallback(c) ==
    /\ gRPCErr[c] # NilErr
    /\ hasGRPCStatus(rootError(gRPCErr[c]))
    /\ jsonBytesFromGrpcStatus(rootStatus(c)).ok
    /\ firstNilOpt(opts[c]) = 0
    /\ FirstBodyWriter(opts[c]) # 0

\* C30: when a callback writes body bytes, the encoder still makes its
\* status write with the kind-derived status and its body write, after the
\* callback's bytes; the sink had sent its status by then (at the latest
\* the 200 of the callback's body write), so the encoder's status write
\* does not change the response; the JSON follows the callbacks' bytes, and
\* AsJSON returns no failure.
C30_BodyWritingCallback ==
    \A c \in Calls :
        (BodyWritingCallback(c) /\ Ended(c)) =>
            LET s == w[sinkOf[c]]
                n == Len(opts[c])
                b == FirstBodyWriter(opts[c])
                sent == runOpts(opts[c], n, HeaderSet(FreshSink, ContentTypeJSON, 0))
            IN  /\ Succeeded(c)
                /\ Len(s.calls) = n + 3
                /\ s.calls[b + 1] = Call(b, "Write", 0)
                /\ s.calls[n + 2] = Call(0, "WriteHeader", httpStatusCodeFrom(rootStatus(c)))
                /\ s.calls[n + 3] = Call(0, "Write", 0)
                /\ sent.wroteHeader
                /\ ResultStatusCode(s) = ResultStatusCode(sent)
                /\ ResultContentType(s) = ResultContentType(sent)
                /\ (\A j \in 1..(b - 1) : opts[c][j].op # "WriteHeader")
                      => ResultStatusCode(s) = StatusOK
                /\ ResultBody(s) = CallbackBytes(opts[c]) \o <<json[c]>>

C30_Witness ==
    /\ Succeeded(1)
    /\ gRPCErr[1] = StatusErr([code |-> Unauthenticated, message |-> "dummy-msg",
                               details |-> <<DebugInfoDetail>>])
    /\ opts[1] = <<OptWriteBody>>
    /\ w[1].calls = <<Call(0, "Header.Set", 0), Call(1, "Write", 0),
                      Call(0, "WriteHeader", StatusUnauthorized), Call(0, "Write", 0)>>
    /\ ResultStatusCode(w[1]) = StatusOK
    /\ ResultContentType(w[1]) = ContentTypeJSON
    /\ Len(ResultBody(w[1])) = 2
    /\ ResultBody(w[1])[1] = RawBytes("dummy-callback-bytes")
    /\ ResultBody(w[1])[2].kind = "json"

====
